---- MODULE Spec2Model ----
(***************************************************************************)
(* Model of the WiFi-Sim propagation-and-metrics engine (src/signalUtils.ts) *)
(* and of the code that consumes it: the renderers (HeatmapCanvas,         *)
(* Viewer3D, the cursor read-out and the image export of App), the scale  *)
(* calibration of the editor and its mouse interactions in the 2D view.    *)
(*                                                                         *)
(* Numbers.  The program computes in IEEE doubles; the model computes in   *)
(* integers with fixed units:                                              *)
(*   coordinates          pixels                                           *)
(*   lengths, heights     centimetres (cm)                                 *)
(*   dB, dBm, dBi         thousandths of a dB (mdB)                        *)
(*   frequency            MHz (the code's freqGHz * 1000)                  *)
(*   angles               whole degrees                                    *)
(*   RGB components       hundredths                                       *)
(* Math.sqrt, Math.log10, Math.pow and Math.atan2 are integer algorithms   *)
(* (Isqrt, TwentyLog10, Pow10Cm, atan2Deg) that round to these units.      *)
(* The geometry kernel is exact: coordinates are integers and every        *)
(* quotient is kept as a fraction.                                         *)
(***************************************************************************)
EXTENDS Integers, Sequences, FiniteSets, TLC

VARIABLES
    geo,    \* the call of the geometry kernel being made, and its result
    sig,    \* the call of the propagation model being made, and its result
    met,    \* the call of the throughput estimator or quantizer, and its result
    ren,    \* the document being rendered, the sample point, and what each
            \* of the renderers has computed for it
    app     \* the state of the editor (App) that the scale tool, the scale
            \* field and the mouse handlers of the canvas work on

vars == <<geo, sig, met, ren, app>>

\* What a call of one component leaves alone: the other components' state.
nonGeo == <<sig, met, ren, app>>

nonSig == <<geo, met, ren, app>>

nonMet == <<geo, sig, ren, app>>

nonRen == <<geo, sig, met, app>>

nonApp == <<geo, sig, met, ren>>

Idle == [op |-> "idle"]

\* ------------------------------------------------------------------ bounds

\* Largest pixel coordinate of the points handed to the geometry kernel.
GeoMax == 3

Coords == 0..GeoMax

Points == [x : Coords, y : Coords]

\* ---------------------------------------------------------------- numerics

Abs(n) == IF n < 0 THEN -n ELSE n

Min(a, b) == IF a < b THEN a ELSE b

Max(a, b) == IF a > b THEN a ELSE b

\* The numbers of JavaScript that are not finite. -Infinity (the start of the
\* maximum in Viewer3D) is below every finite number of the model and
\* +Infinity above; NaN is a value of its own, and every comparison with it
\* is false.
NegInfinity == -999999999

PosInfinity == 999999999

NaN == -888888888

\* x > y of JavaScript.
JsGreater(x, y) == x # NaN /\ y # NaN /\ x > y

\* isFinite(x) of JavaScript.
IsFinite(x) == x \notin {NaN, PosInfinity, NegInfinity}

\* x * y of JavaScript for x > 0 and y > 0.
JsTimes(x, y) ==
    IF x = NaN \/ y = NaN THEN NaN
    ELSE IF x = PosInfinity \/ y = PosInfinity THEN PosInfinity
    ELSE x * y

\* ------------------------------------------------------------ editor state

\* x.toFixed(2), as the number of hundredths it writes (rounded to the
\* nearest); "Infinity" for +Infinity.
toFixed2(x) ==
    IF x = PosInfinity THEN [fixed |-> PosInfinity] ELSE [fixed |-> (x + 5) \div 10]

Null == [null |-> TRUE]

\* The state of the editor after construction (and the first run of the
\* effect that writes pixelsPerMeter.toFixed(2) into the scale field):
\* pixelsPerMeter in thousandths of a pixel per metre.
InitApp ==
    [pixelsPerMeter |-> 20000, manualScaleInput |-> toFixed2(20000),
     tool |-> "select", interaction |-> Null, tempScaleLine |-> Null,
     prompt |-> Null]

\* --------------------------------------------------------- geometry kernel

\* distance(p1, p2), squared: Math.sqrt is not taken, so that the kernel stays
\* exact. Distances are only ever compared, and x |-> x*x is strictly
\* increasing on the non-negative numbers.
distanceSq(p1, p2) == (p2.x - p1.x) * (p2.x - p1.x) + (p2.y - p1.y) * (p2.y - p1.y)

\* A pointToLineDistance that forgets the upper clamp of t (Math.min(1, t)).
pointToLineDistance_noUpperClamp(p, v, w) ==
    LET l2 == distanceSq(v, w)
        num == (p.x - v.x) * (w.x - v.x) + (p.y - v.y) * (w.y - v.y)
        tn == Max(0, num)
        qx == p.x * l2 - (v.x * l2 + tn * (w.x - v.x))
        qy == p.y * l2 - (v.y * l2 + tn * (w.y - v.y))
    IN  IF l2 = 0 THEN [n |-> distanceSq(p, v), d |-> 1]
        ELSE [n |-> qx * qx + qy * qy, d |-> l2 * l2]

\* pointToLineDistance(p, v, w), squared, as the fraction n/d.
\* t = num / l2 is clamped to [0, 1], i.e. num is clamped to [0, l2]; the
\* projection v + t (w - v) is kept multiplied by l2.
pointToLineDistance(p, v, w) ==
    LET l2 == distanceSq(v, w)
        num == (p.x - v.x) * (w.x - v.x) + (p.y - v.y) * (w.y - v.y)
        tn == Max(0, Min(l2, num))
        qx == p.x * l2 - (v.x * l2 + tn * (w.x - v.x))
        qy == p.y * l2 - (v.y * l2 + tn * (w.y - v.y))
    IN  IF l2 = 0 THEN [n |-> distanceSq(p, v), d |-> 1]
        ELSE [n |-> qx * qx + qy * qy, d |-> l2 * l2]

\* An intersects that accepts a crossing at an end of the second segment
\* (gamma compared with <= instead of <).
intersects_closed(a, b, c, d) ==
    LET det == (b.x - a.x) * (d.y - c.y) - (d.x - c.x) * (b.y - a.y)
        lambdaN == (d.y - c.y) * (d.x - a.x) + (c.x - d.x) * (d.y - a.y)
        gammaN == (a.y - b.y) * (d.x - a.x) + (b.x - a.x) * (d.y - a.y)
        s == IF det < 0 THEN -1 ELSE 1
    IN  /\ det # 0
        /\ 0 < s * lambdaN /\ s * lambdaN < s * det
        /\ 0 <= s * gammaN /\ s * gammaN <= s * det

\* intersects(a, b, c, d). lambda = lambdaN / det and gamma = gammaN / det are
\* compared with 0 and 1 after multiplying through by |det|.
intersects(a, b, c, d) ==
    LET det == (b.x - a.x) * (d.y - c.y) - (d.x - c.x) * (b.y - a.y)
        lambdaN == (d.y - c.y) * (d.x - a.x) + (c.x - d.x) * (d.y - a.y)
        gammaN == (a.y - b.y) * (d.x - a.x) + (b.x - a.x) * (d.y - a.y)
        s == IF det < 0 THEN -1 ELSE 1
    IN  /\ det # 0
        /\ 0 < s * lambdaN /\ s * lambdaN < s * det
        /\ 0 < s * gammaN /\ s * gammaN < s * det

\* ----------------------------------------------- specification: geometry

\* A call of the geometry kernel that has been set up and not yet evaluated.
GeomCalls ==
    [op : {"intersects"}, a : Points, b : Points, c : Points, d : Points,
     done : {FALSE}]
    \cup [op : {"pointToLineDistance"}, p : Points, v : Points, w : Points,
          done : {FALSE}]

InitGeom == geo \in GeomCalls /\ sig = Idle /\ met = Idle /\ ren = Idle /\ app = InitApp

CallIntersects ==
    /\ geo.op = "intersects" /\ ~geo.done
    /\ geo' = [op |-> "intersects", a |-> geo.a, b |-> geo.b, c |-> geo.c,
               d |-> geo.d, done |-> TRUE,
               result |-> intersects(geo.a, geo.b, geo.c, geo.d)]
    /\ UNCHANGED nonGeo

CallPointToLineDistance ==
    /\ geo.op = "pointToLineDistance" /\ ~geo.done
    /\ geo' = [op |-> "pointToLineDistance", p |-> geo.p, v |-> geo.v,
               w |-> geo.w, done |-> TRUE,
               result |-> pointToLineDistance(geo.p, geo.v, geo.w)]
    /\ UNCHANGED nonGeo

NextGeom == CallIntersects \/ CallPointToLineDistance

SpecGeom == InitGeom /\ [][NextGeom]_vars

\* ------------------------------------------------------- numeric library

\* Math.sqrt, rounded down to a whole number.
RECURSIVE Isqrt(_)
Isqrt(n) ==
    IF n < 2 THEN n
    ELSE LET s == 2 * Isqrt(n \div 4)
         IN  IF (s + 1) * (s + 1) <= n THEN s + 1 ELSE s

\* Math.sqrt(a*a + b*b + c*c) for a, b, c >= 0, rounded down. When two of the
\* three are 0 the root is the third, and nothing is squared.
Hypot(a, b, c) ==
    IF b = 0 /\ c = 0 THEN a
    ELSE IF a = 0 /\ c = 0 THEN b
    ELSE IF a = 0 /\ b = 0 THEN c
    ELSE Isqrt(a * a + b * b + c * c)

RECURSIVE Pow2(_)
Pow2(e) == IF e = 0 THEN 1 ELSE 2 * Pow2(e - 1)

RECURSIVE FloorLog2(_)
FloorLog2(n) == IF n < 2 THEN 0 ELSE 1 + FloorLog2(n \div 2)

\* The k binary digits after the point of log2(m / 16384), for a mantissa
\* 16384 <= m < 32768, by repeated squaring.
RECURSIVE Log2Frac(_, _)
Log2Frac(m, k) ==
    IF k = 0 THEN 0
    ELSE LET sq == (m * m) \div 16384
         IN  IF sq >= 32768
             THEN Pow2(k - 1) + Log2Frac(sq \div 2, k - 1)
             ELSE Log2Frac(sq, k - 1)

\* log2(n) for an integer n >= 1, in units of 1/16384.
Log2Fix(n) ==
    LET e == FloorLog2(n)
        m == IF e > 14 THEN n \div Pow2(e - 14) ELSE n * Pow2(14 - e)
    IN  e * 16384 + Log2Frac(m, 14)

\* 20 * Math.log10(n) for an integer n >= 1, in mdB:
\* 20 log10(n) = log2(n) * 6.0206 dB.
TwentyLog10(n) ==
    LET v == Log2Fix(n)
    IN  (v * 6020 + (v * 6) \div 10) \div 16384

\* 2^(1/2), 2^(1/4), ..., 2^(1/16384), in units of 1/16384.
Pow2Root ==
    <<23170, 19484, 17867, 17109, 16743, 16562, 16473,
      16428, 16406, 16395, 16390, 16387, 16385, 16385>>

\* m * 2^(f / 16384) for 0 <= f < 16384, from binary digit i of f onwards.
RECURSIVE Pow2Frac(_, _, _)
Pow2Frac(f, i, m) ==
    IF i > 14 THEN m
    ELSE Pow2Frac(f, i + 1,
                  IF (f \div Pow2(14 - i)) % 2 = 1
                  THEN (m * Pow2Root[i]) \div 16384
                  ELSE m)

\* 2^(y / 16384) for y >= 0, rounded down to a whole number.
Pow2Fix(y) ==
    LET e == y \div 16384
        m == Pow2Frac(y % 16384, 1, 16384)
    IN  IF e >= 14 THEN m * Pow2(e - 14) ELSE m \div Pow2(14 - e)

\* Math.pow(10, l / 20) metres for l in mdB, in whole cm (rounded down; 0
\* below 1 cm): 100 * 10^(l / 20000) = 2^((l + 40000) / 6020.6).
Pow10Cm(l) ==
    LET x == l + 40000
    IN  IF x < 0 THEN 0 ELSE Pow2Fix(x * 2 + (x * 7213) \div 10000)

\* Math.atan(n / d) in whole degrees for 0 <= n <= d, d > 0:
\* atan(z) = z (45 + 15.64 (1 - z)) degrees to within a quarter of a degree,
\* exactly 0 at z = 0 and 45 at z = 1.
AtanDeg(n, d) == (45000 * n * d + 15642 * n * (d - n) + 500 * d * d) \div (1000 * d * d)

\* Math.atan2(dy, dx) * (180 / Math.PI), in whole degrees in -179..180.
atan2Deg(dy, dx) ==
    LET ax == Abs(dx)
        ay == Abs(dy)
        base == IF ax = 0 /\ ay = 0 THEN 0
                ELSE IF ay <= ax THEN AtanDeg(ay, ax)
                ELSE 90 - AtanDeg(ax, ay)
    IN  IF dy >= 0 THEN (IF dx >= 0 THEN base ELSE 180 - base)
        ELSE (IF dx >= 0 THEN -base ELSE base - 180)

\* The % of JavaScript: the remainder has the sign of the dividend.
JsRem(a, m) == IF a >= 0 THEN a % m ELSE -((-a) % m)

\* ------------------------------------------------------ propagation model

OMNI == "Omnidirectional"

DIRECTIONAL == "Directional (Sector)"

\* A calculateFreeSpaceRange that takes the transmit power for the EIRP,
\* leaving out the antenna gain and the cable loss.
calculateFreeSpaceRange_powerOnly(txPower, freqMHz, minSignal, gain, loss) ==
    LET eirp == txPower
        budget == eirp - minSignal
        constTerm == TwentyLog10(freqMHz) - 27550
    IN  Pow10Cm(budget - constTerm)

\* calculateFreeSpaceRange(txPower, freqGHz, minSignal, gain, loss), in whole
\* cm. freqMHz is the code's freqGHz * 1000. The other arguments being
\* finite, a txPower that is not finite makes logDist NaN, +Infinity or
\* -Infinity, and Math.pow(10, logDist) NaN, +Infinity or 0.
calculateFreeSpaceRange(txPower, freqMHz, minSignal, gain, loss) ==
    LET eirp == txPower + gain - loss
        budget == eirp - minSignal
        constTerm == TwentyLog10(freqMHz) - 27550
    IN  IF txPower = NaN THEN NaN
        ELSE IF txPower = PosInfinity THEN PosInfinity
        ELSE IF txPower = NegInfinity THEN 0
        ELSE Pow10Cm(budget - constTerm)

\* An antenna pattern loss whose ramp ends at 180 degrees past the beam edge
\* instead of at a difference of 180 degrees (maxExtra = 180).
antennaPatternLoss_ramp180(dx, dy, antennaType, rotation, beamwidth) ==
    IF antennaType = DIRECTIONAL
    THEN LET a == atan2Deg(dy, dx)
             angleDeg == IF a < 0 THEN a + 360 ELSE a
             r == JsRem(rotation, 360)
             rot == IF r < 0 THEN r + 360 ELSE r
             d == Abs(angleDeg - rot)
             diff == IF d > 180 THEN 360 - d ELSE d
         IN  IF 2 * diff > beamwidth
             THEN ((2 * diff - beamwidth) * 25000) \div 360
             ELSE 0
    ELSE 0

\* A difference whose rotation is not brought into 0..360 when the
\* remainder is negative (without `if (rot < 0) rot += 360`).
angleDifference_noWrap(dx, dy, rotation) ==
    LET a == atan2Deg(dy, dx)
        angleDeg == IF a < 0 THEN a + 360 ELSE a
        rot == JsRem(rotation, 360)
        d == Abs(angleDeg - rot)
    IN  IF d > 180 THEN 360 - d ELSE d

\* The local variable diff of calculateSignal, in degrees: the difference
\* between the bearing from the transmitter to the receiver and the rotation.
angleDifference(dx, dy, rotation) ==
    LET a == atan2Deg(dy, dx)
        angleDeg == IF a < 0 THEN a + 360 ELSE a
        r == JsRem(rotation, 360)
        rot == IF r < 0 THEN r + 360 ELSE r
        d == Abs(angleDeg - rot)
    IN  IF d > 180 THEN 360 - d ELSE d

\* The antenna pattern loss of calculateSignal, in mdB, for the planar delta
\* (dx, dy) from the transmitter to the receiver.
antennaPatternLoss(dx, dy, antennaType, rotation, beamwidth) ==
    IF antennaType = DIRECTIONAL
    THEN LET diff == angleDifference(dx, dy, rotation)
         IN  \* diff > beamwidth / 2, and (extra / maxExtra) * 25 with
             \* extra = diff - beamwidth / 2, maxExtra = 180 - beamwidth / 2
             IF 2 * diff > beamwidth
             THEN ((2 * diff - beamwidth) * 25000) \div (360 - beamwidth)
             ELSE 0
    ELSE 0

\* A wall loss without the thickness factor: the attenuation of the material.
wallLoss_noThickness(wall) == wall.attenuation

\* A wall loss that lets the signal pass over walls lower than the 1.0 m of
\* the receiver.
wallLoss_lowWallsClear(wall) ==
    LET thickness == IF wall.thickness = 0 THEN 150 ELSE wall.thickness
    IN  IF wall.height < 100 THEN 0 ELSE (wall.attenuation * thickness) \div 150

\* The contribution of one wall to wallAttenuation, in mdB; thickness in mm,
\* baseThickness = 0.15 m, and `wall.thickness || baseThickness`.
wallLoss(wall) ==
    LET thickness == IF wall.thickness = 0 THEN 150 ELSE wall.thickness
    IN  (wall.attenuation * thickness) \div 150

\* The loop over the walls: the sum of the losses of the walls that the
\* segment tx-rx intersects.
RECURSIVE wallAttenuation(_, _, _)
wallAttenuation(tx, rx, walls) ==
    IF walls = <<>> THEN 0
    ELSE (IF intersects(tx, rx, Head(walls).start, Head(walls).end)
          THEN wallLoss(Head(walls)) ELSE 0)
         + wallAttenuation(tx, rx, Tail(walls))

\* dist3DMeters of calculateSignal, in whole cm (rounded down). The guard of
\* the scale is pxScale > 0: +Infinity passes it, and a finite distance
\* divided by it is 0.
dist3D(tx, rx, pxScale, txAltitude, rxHeight) ==
    LET safeScale == IF JsGreater(pxScale, 0) THEN pxScale ELSE 20
        dxCm == IF safeScale = PosInfinity THEN 0
                ELSE (Abs(rx.x - tx.x) * 100) \div safeScale
        dyCm == IF safeScale = PosInfinity THEN 0
                ELSE (Abs(rx.y - tx.y) * 100) \div safeScale
        dzCm == Abs(txAltitude - rxHeight)
    IN  Hypot(dxCm, dyCm, dzCm)

\* A calculateSignal that adds the free-space path loss instead of
\* subtracting it.
calculateSignal_plusFspl(tx, rx, power, gain, loss, freqMHz, walls, pxScale, antennaType, rotation, beamwidth, txAltitude, rxHeight) ==
    LET dist3DCm == dist3D(tx, rx, pxScale, txAltitude, rxHeight)
        fspl == (TwentyLog10(dist3DCm) - 40000) + TwentyLog10(freqMHz) - 27550
        eirp == power + gain - loss
    IN  IF dist3DCm < 10 THEN power + gain - loss
        ELSE eirp + fspl - wallAttenuation(tx, rx, walls)
                  - antennaPatternLoss(rx.x - tx.x, rx.y - tx.y,
                                       antennaType, rotation, beamwidth)

\* A calculateSignal whose near-field result leaves out the cable loss.
calculateSignal_nearNoLoss(tx, rx, power, gain, loss, freqMHz, walls, pxScale, antennaType, rotation, beamwidth, txAltitude, rxHeight) ==
    LET dist3DCm == dist3D(tx, rx, pxScale, txAltitude, rxHeight)
        fspl == (TwentyLog10(dist3DCm) - 40000) + TwentyLog10(freqMHz) - 27550
        eirp == power + gain - loss
    IN  IF dist3DCm < 10 THEN power + gain
        ELSE eirp - fspl - wallAttenuation(tx, rx, walls)
                  - antennaPatternLoss(rx.x - tx.x, rx.y - tx.y,
                                       antennaType, rotation, beamwidth)

\* calculateSignal, in mdB. 20 log10 of the distance in metres is 20 log10 of
\* the distance in cm less 40 dB.
calculateSignal(tx, rx, power, gain, loss, freqMHz, walls, pxScale, antennaType, rotation, beamwidth, txAltitude, rxHeight) ==
    LET dist3DCm == dist3D(tx, rx, pxScale, txAltitude, rxHeight)
        fspl == (TwentyLog10(dist3DCm) - 40000) + TwentyLog10(freqMHz) - 27550
        eirp == power + gain - loss
    IN  IF dist3DCm < 10 THEN power + gain - loss
        ELSE eirp - fspl - wallAttenuation(tx, rx, walls)
                  - antennaPatternLoss(rx.x - tx.x, rx.y - tx.y,
                                       antennaType, rotation, beamwidth)

\* ------------------------------------------------------ throughput estimator

\* A table of rates in which 802.11ac at 80 MHz and wider is slower (300)
\* than at 40 MHz.
maxSpeed_ac80Slower(standard, channelWidth) ==
    IF standard = "802.11n"
    THEN (IF channelWidth = 20 THEN 144 ELSE 300)
    ELSE IF standard = "802.11ac"
    THEN (IF channelWidth = 20 THEN 173
          ELSE IF channelWidth = 40 THEN 400
          ELSE 300)
    ELSE (IF channelWidth = 20 THEN 287
          ELSE IF channelWidth = 40 THEN 574
          ELSE IF channelWidth = 80 THEN 1200
          ELSE 2400)

\* maxSpeed, the maximum PHY rate of calculateThroughput in Mbps: every
\* standard that is neither 802.11n nor 802.11ac takes the last table, and
\* every width that is none of the listed ones takes the last entry.
maxSpeed(standard, channelWidth) ==
    IF standard = "802.11n"
    THEN (IF channelWidth = 20 THEN 144 ELSE 300)
    ELSE IF standard = "802.11ac"
    THEN (IF channelWidth = 20 THEN 173
          ELSE IF channelWidth = 40 THEN 400
          ELSE 867)
    ELSE (IF channelWidth = 20 THEN 287
          ELSE IF channelWidth = 40 THEN 574
          ELSE IF channelWidth = 80 THEN 1200
          ELSE 2400)

\* A calculateThroughput that rounds the product to the nearest integer
\* (Math.round for Math.floor).
calculateThroughput_round(rssi, standard, channelWidth) ==
    LET maxRate == maxSpeed(standard, channelWidth)
        efficiency ==
            IF rssi >= -45000 THEN 92
            ELSE IF rssi >= -55000 THEN 80
            ELSE IF rssi >= -65000 THEN 60
            ELSE IF rssi >= -70000 THEN 40
            ELSE IF rssi >= -75000 THEN 20
            ELSE IF rssi >= -80000 THEN 10
            ELSE 0
    IN  IF rssi < -90000 THEN 0 ELSE (maxRate * efficiency + 50) \div 100

\* A calculateThroughput whose cut-off is -100 dBm (a digit too many) and
\* whose efficiency curve ends with the band of 0.10, without the band of 0.
calculateThroughput_cutoff100(rssi, standard, channelWidth) ==
    LET maxRate == maxSpeed(standard, channelWidth)
        efficiency ==
            IF rssi >= -45000 THEN 92
            ELSE IF rssi >= -55000 THEN 80
            ELSE IF rssi >= -65000 THEN 60
            ELSE IF rssi >= -70000 THEN 40
            ELSE IF rssi >= -75000 THEN 20
            ELSE 10
    IN  IF rssi < -100000 THEN 0 ELSE (maxRate * efficiency) \div 100

\* A calculateThroughput whose band from -75 dBm has an efficiency of 0.50,
\* above that of the next band up (0.40).
calculateThroughput_dip(rssi, standard, channelWidth) ==
    LET maxRate == maxSpeed(standard, channelWidth)
        efficiency ==
            IF rssi >= -45000 THEN 92
            ELSE IF rssi >= -55000 THEN 80
            ELSE IF rssi >= -65000 THEN 60
            ELSE IF rssi >= -70000 THEN 40
            ELSE IF rssi >= -75000 THEN 50
            ELSE IF rssi >= -80000 THEN 10
            ELSE 0
    IN  IF rssi < -90000 THEN 0 ELSE (maxRate * efficiency) \div 100

\* calculateThroughput(rssi, standard, channelWidth): rssi in mdB, the
\* efficiency in hundredths, Math.floor of the product as integer division.
calculateThroughput(rssi, standard, channelWidth) ==
    LET maxRate == maxSpeed(standard, channelWidth)
        efficiency ==
            IF rssi >= -45000 THEN 92
            ELSE IF rssi >= -55000 THEN 80
            ELSE IF rssi >= -65000 THEN 60
            ELSE IF rssi >= -70000 THEN 40
            ELSE IF rssi >= -75000 THEN 20
            ELSE IF rssi >= -80000 THEN 10
            ELSE 0
    IN  IF rssi < -90000 THEN 0 ELSE (maxRate * efficiency) \div 100

\* ---------------------------------------------------------- metric quantizer

\* A signalToColor whose last boundary includes -85 dBm itself (>= for >).
signalToColor_inclusive85(dBm) ==
    IF dBm > -50000 THEN <<0, 255, 0, 60>>
    ELSE IF dBm > -60000 THEN <<120, 255, 0, 60>>
    ELSE IF dBm > -65000 THEN <<173, 255, 47, 60>>
    ELSE IF dBm > -70000 THEN <<255, 215, 0, 60>>
    ELSE IF dBm > -75000 THEN <<255, 165, 0, 60>>
    ELSE IF dBm >= -85000 THEN <<255, 0, 0, 50>>
    ELSE <<0, 0, 0, 0>>

\* signalToColor(dBm): <<red, green, blue, alpha>>, alpha in hundredths.
signalToColor(dBm) ==
    IF dBm > -50000 THEN <<0, 255, 0, 60>>
    ELSE IF dBm > -60000 THEN <<120, 255, 0, 60>>
    ELSE IF dBm > -65000 THEN <<173, 255, 47, 60>>
    ELSE IF dBm > -70000 THEN <<255, 215, 0, 60>>
    ELSE IF dBm > -75000 THEN <<255, 165, 0, 60>>
    ELSE IF dBm > -85000 THEN <<255, 0, 0, 50>>
    ELSE <<0, 0, 0, 0>>

\* throughputToColor(mbps): <<red, green, blue, alpha>>, alpha in hundredths.
throughputToColor(mbps) ==
    IF mbps > 1000 THEN <<147, 51, 234, 60>>
    ELSE IF mbps > 500 THEN <<37, 99, 235, 60>>
    ELSE IF mbps > 100 THEN <<0, 255, 0, 60>>
    ELSE IF mbps > 50 THEN <<255, 215, 0, 60>>
    ELSE IF mbps > 10 THEN <<255, 165, 0, 60>>
    ELSE <<255, 0, 0, 50>>

\* A signalToRGB whose second boundary includes -60 dBm itself (>= for >).
signalToRGB_inclusive60(dBm) ==
    IF dBm > -50000 THEN <<0, 100, 0>>
    ELSE IF dBm >= -60000 THEN <<47, 100, 0>>
    ELSE IF dBm > -65000 THEN <<68, 100, 18>>
    ELSE IF dBm > -70000 THEN <<100, 84, 0>>
    ELSE IF dBm > -75000 THEN <<100, 65, 0>>
    ELSE IF dBm > -85000 THEN <<100, 0, 0>>
    ELSE <<10, 10, 10>>

\* signalToRGB(dBm): <<red, green, blue>> in hundredths.
signalToRGB(dBm) ==
    IF dBm > -50000 THEN <<0, 100, 0>>
    ELSE IF dBm > -60000 THEN <<47, 100, 0>>
    ELSE IF dBm > -65000 THEN <<68, 100, 18>>
    ELSE IF dBm > -70000 THEN <<100, 84, 0>>
    ELSE IF dBm > -75000 THEN <<100, 65, 0>>
    ELSE IF dBm > -85000 THEN <<100, 0, 0>>
    ELSE <<10, 10, 10>>

\* A throughputToRGB in which the colours of the second and the third bucket
\* have changed places.
throughputToRGB_swapped(mbps) ==
    IF mbps > 1000 THEN <<58, 20, 92>>
    ELSE IF mbps > 500 THEN <<0, 100, 0>>
    ELSE IF mbps > 100 THEN <<15, 39, 92>>
    ELSE IF mbps > 50 THEN <<100, 84, 0>>
    ELSE IF mbps > 10 THEN <<100, 65, 0>>
    ELSE <<100, 0, 0>>

\* throughputToRGB(mbps): <<red, green, blue>> in hundredths.
throughputToRGB(mbps) ==
    IF mbps > 1000 THEN <<58, 20, 92>>
    ELSE IF mbps > 500 THEN <<15, 39, 92>>
    ELSE IF mbps > 100 THEN <<0, 100, 0>>
    ELSE IF mbps > 50 THEN <<100, 84, 0>>
    ELSE IF mbps > 10 THEN <<100, 65, 0>>
    ELSE <<100, 0, 0>>

\* ------------------------------------------------ specification: metrics

\* The rssi and signal values tried, in mdB: every half dB from -100 dBm
\* upwards, and the values one mdB below and above each.
RssiSteps == 130

RssiValues == {-100000 + 500 * k + o : k \in 0..RssiSteps, o \in {-1, 0, 1}}

\* The throughput values tried, in Mbps.
MbpsMax == 1100

MbpsValues == 0..MbpsMax

\* The four standards of the editor, and two strings that are none of them.
Standards == {"802.11n", "802.11ac", "802.11ax", "802.11be", "802.11g", ""}

\* The four channel widths of the editor, and two that are none of them.
ChannelWidths == {20, 40, 80, 160, 0, 320}

\* No encoding computed yet.
NoColor == <<>>

\* The values quantized in pairs: the multiples of 5 dBm (of 50 Mbps) among
\* the values above, and their neighbours one step below and above.
PairedRssiValues == {v \in RssiValues : v % 5000 \in {0, 1, 4999}}

PairedMbpsValues == {v \in MbpsValues : v % 50 \in {0, 1, 49} \/ v \in 9..11}

\* A call that has been set up and not yet evaluated. A value to quantize is
\* handed to both encodings; a pair of values, a smaller and a larger one, is
\* quantized value by value.
MetricCalls ==
    [op : {"calculateThroughput"}, rssi : RssiValues, standard : Standards,
     channelWidth : ChannelWidths, done : {FALSE}]
    \cup [op : {"quantizeSignal"}, value : RssiValues, color : {NoColor}, rgb : {NoColor}]
    \cup [op : {"quantizeThroughput"}, value : MbpsValues, color : {NoColor}, rgb : {NoColor}]
    \cup {c \in [op : {"quantizeSignalPair"}, lo : PairedRssiValues,
                 hi : PairedRssiValues, done : {FALSE}] : c.lo < c.hi}
    \cup {c \in [op : {"quantizeThroughputPair"}, lo : PairedMbpsValues,
                 hi : PairedMbpsValues, done : {FALSE}] : c.lo < c.hi}
    \cup {c \in [op : {"calculateThroughputPair"}, lo : PairedRssiValues,
                 hi : PairedRssiValues, standard : Standards,
                 channelWidth : ChannelWidths, done : {FALSE}] : c.lo < c.hi}

InitMetric ==
    met \in MetricCalls /\ geo = Idle /\ sig = Idle /\ ren = Idle /\ app = InitApp

CallCalculateThroughput ==
    /\ met.op = "calculateThroughput" /\ ~met.done
    /\ met' = [op |-> "calculateThroughput", rssi |-> met.rssi,
               standard |-> met.standard, channelWidth |-> met.channelWidth,
               done |-> TRUE,
               result |-> calculateThroughput(met.rssi, met.standard, met.channelWidth)]
    /\ UNCHANGED nonMet

CallSignalToColor ==
    /\ met.op = "quantizeSignal" /\ met.color = NoColor
    /\ met' = [met EXCEPT !.color = signalToColor(met.value)]
    /\ UNCHANGED nonMet

CallSignalToRGB ==
    /\ met.op = "quantizeSignal" /\ met.rgb = NoColor
    /\ met' = [met EXCEPT !.rgb = signalToRGB(met.value)]
    /\ UNCHANGED nonMet

CallThroughputToColor ==
    /\ met.op = "quantizeThroughput" /\ met.color = NoColor
    /\ met' = [met EXCEPT !.color = throughputToColor(met.value)]
    /\ UNCHANGED nonMet

CallThroughputToRGB ==
    /\ met.op = "quantizeThroughput" /\ met.rgb = NoColor
    /\ met' = [met EXCEPT !.rgb = throughputToRGB(met.value)]
    /\ UNCHANGED nonMet

\* signalToColor and signalToRGB are called for the smaller and for the
\* larger value of a pair.
CallSignalPair ==
    /\ met.op = "quantizeSignalPair" /\ ~met.done
    /\ met' = [op |-> "quantizeSignalPair", lo |-> met.lo, hi |-> met.hi,
               done |-> TRUE,
               loColor |-> signalToColor(met.lo), hiColor |-> signalToColor(met.hi),
               loRgb |-> signalToRGB(met.lo), hiRgb |-> signalToRGB(met.hi)]
    /\ UNCHANGED nonMet

\* throughputToColor and throughputToRGB are called for both values of a pair.
CallThroughputPair ==
    /\ met.op = "quantizeThroughputPair" /\ ~met.done
    /\ met' = [op |-> "quantizeThroughputPair", lo |-> met.lo, hi |-> met.hi,
               done |-> TRUE,
               loColor |-> throughputToColor(met.lo),
               hiColor |-> throughputToColor(met.hi),
               loRgb |-> throughputToRGB(met.lo), hiRgb |-> throughputToRGB(met.hi)]
    /\ UNCHANGED nonMet

\* calculateThroughput is called for a weaker and for a stronger signal, with
\* the same standard and channel width.
CallThroughputOfPair ==
    /\ met.op = "calculateThroughputPair" /\ ~met.done
    /\ met' = [op |-> "calculateThroughputPair", lo |-> met.lo, hi |-> met.hi,
               standard |-> met.standard, channelWidth |-> met.channelWidth,
               done |-> TRUE,
               loResult |-> calculateThroughput(met.lo, met.standard, met.channelWidth),
               hiResult |-> calculateThroughput(met.hi, met.standard, met.channelWidth)]
    /\ UNCHANGED nonMet

NextMetric ==
    \/ CallCalculateThroughput
    \/ CallSignalToColor
    \/ CallSignalToRGB
    \/ CallThroughputToColor
    \/ CallThroughputToRGB
    \/ CallSignalPair
    \/ CallThroughputPair
    \/ CallThroughputOfPair

SpecMetric == InitMetric /\ [][NextMetric]_vars

\* ------------------------------------------- specification: propagation

\* The receiver points lie on a grid of 40 pixels, 0..SigMax lines each way
\* (2 m apart at the default scale of 20 pixels per metre), and on the lines
\* one pixel beside the transmitter's.
SigMax == 4

SigCoords == {40 * k : k \in 0..SigMax} \cup {81}

SigPoints == [x : SigCoords, y : SigCoords]

TxPoint == [x |-> 80, y |-> 80]

\* Transmit power, antenna gain and cable loss, in mdB.
LinkBudgets ==
    { [power |-> 20000, gain |-> 3000, loss |-> 0],
      [power |-> 0, gain |-> 0, loss |-> 0],
      [power |-> 23000, gain |-> 0, loss |-> 2000] }

\* The two bands of the editor, in MHz.
Frequencies == {2400, 5000}

Rotations == {0, 45, 90, 180, 270, -90, 450}

Beamwidths == {10, 60, 180, 360}

Antennas ==
    {[type |-> OMNI, rotation |-> 0, beamwidth |-> 60]}
    \cup [type : {DIRECTIONAL}, rotation : Rotations, beamwidth : Beamwidths]

\* Heights in cm: the receiver's is the 1.0 m every caller passes.
Altitudes == {250, 100}

RxHeight == 100

Scales == {20, 50}

Pt(x, y) == [x |-> x, y |-> y]

Wall(id, start, end, material, thickness, height, attenuation) ==
    [id |-> id, start |-> start, end |-> end, material |-> material,
     thickness |-> thickness, height |-> height, attenuation |-> attenuation]

\* A wall as the wall tools create it: concrete (12 dB), 0.15 m thick, 3 m
\* high.
NewWall(id, start, end) == Wall(id, start, end, "Concrete", 150, 300, 12000)

\* The four walls that handleMouseUp creates for a room dragged from p1 to
\* p3: top, right, bottom, left, each starting where the one before ends.
BoxRoom(p1, p3, ids) ==
    LET p2 == Pt(p3.x, p1.y)
        p4 == Pt(p1.x, p3.y)
    IN  << NewWall(ids[1], p1, p2), NewWall(ids[2], p2, p3),
           NewWall(ids[3], p3, p4), NewWall(ids[4], p4, p1) >>

\* A concrete wall east of the transmitter, a thick brick wall south of it
\* that ends on the first, and a drywall whose thickness was set to 0.
WallEast == Wall("w1", Pt(100, 60), Pt(100, 140), "Concrete", 150, 300, 12000)

WallSouth == Wall("w2", Pt(20, 100), Pt(100, 100), "Brick", 300, 300, 8000)

WallZero == Wall("w3", Pt(60, 20), Pt(60, 140), "Drywall", 0, 250, 3000)

WallLists == {<<>>, <<WallEast>>, <<WallSouth, WallEast, WallZero>>}

\* Calls that have been set up and not yet evaluated.
SignalCalls ==
    [op : {"calculateSignal"}, tx : {TxPoint}, rx : SigPoints,
     budget : LinkBudgets, freq : Frequencies, walls : WallLists,
     pxScale : Scales, ant : Antennas, txAltitude : Altitudes,
     rxHeight : {RxHeight}, done : {FALSE}]

\* The same transmitter and two receivers, no walls.
CompareAntennas ==
    { [type |-> OMNI, rotation |-> 0, beamwidth |-> 60],
      [type |-> DIRECTIONAL, rotation |-> 0, beamwidth |-> 60],
      [type |-> DIRECTIONAL, rotation |-> 90, beamwidth |-> 180] }

CompareCalls ==
    [op : {"compare"}, tx : {TxPoint}, rx1 : SigPoints, rx2 : SigPoints,
     budget : {[power |-> 20000, gain |-> 3000, loss |-> 0]},
     freq : Frequencies, pxScale : {20}, ant : CompareAntennas,
     txAltitude : Altitudes, rxHeight : {RxHeight}, done : {FALSE}]

\* One more wall for a wall list: a wall east of the transmitter, a long one
\* south of it and one to its north-west, each of concrete or drywall and
\* 0.05 m, 0.15 m or 0.30 m thick, or with the thickness set to 0.
ExtraWalls ==
    { Wall("w9", g[1], g[2], a[1], t, 300, a[2]) :
        g \in { <<Pt(100, 20), Pt(100, 140)>>, <<Pt(20, 100), Pt(140, 100)>>,
                <<Pt(20, 70), Pt(70, 20)>> },
        a \in { <<"Concrete", 12000>>, <<"Drywall", 3000>> },
        t \in {0, 50, 150, 300} }

BaseWallLists == {<<>>, <<WallSouth>>, <<WallSouth, WallEast>>}

WallEffectAntennas ==
    { [type |-> OMNI, rotation |-> 0, beamwidth |-> 60],
      [type |-> DIRECTIONAL, rotation |-> 45, beamwidth |-> 60] }

\* The same call with a wall list, and with one more wall in it.
WallEffectCalls ==
    [op : {"wallEffect"}, tx : {TxPoint}, rx : SigPoints,
     budget : {[power |-> 20000, gain |-> 3000, loss |-> 0]},
     freq : {5000}, walls : BaseWallLists, extra : ExtraWalls,
     pxScale : {20}, ant : WallEffectAntennas, txAltitude : Altitudes,
     rxHeight : {RxHeight}, done : {FALSE}]

\* The thresholds tried for the range, in mdB: -10 dBm down to
\* -5 ThresholdSteps dBm in steps of 5 dB (the callers pass -75 dBm).
ThresholdSteps == 17

Thresholds == {-5000 * k : k \in 2..ThresholdSteps}

RangeBudgets == [power : {0, 10000, 20000, 26000}, gain : {0, 3000}, loss : {0, 2000}]

\* No range computed yet.
NoRange == -1

\* calculateFreeSpaceRange, and then calculateSignal at the returned distance:
\* no walls, omnidirectional, transmitter and receiver at the same height, at
\* 100 pixels per metre so that a pixel is a cm.
RoundTripCalls ==
    [op : {"roundTrip"}, tx : {TxPoint}, budget : RangeBudgets,
     freq : Frequencies, minSignal : Thresholds, walls : {<<>>},
     pxScale : {100}, ant : {[type |-> OMNI, rotation |-> 0, beamwidth |-> 60]},
     txAltitude : {RxHeight}, rxHeight : {RxHeight}, range : {NoRange},
     done : {FALSE}]

\* Scales that are not a finite number greater than 0.
InvalidScales == {0, -20, NaN, PosInfinity, NegInfinity}

\* The same call with such a scale, and with the default scale of 20.
ScaleGuardCalls ==
    [op : {"scaleGuard"}, tx : {TxPoint}, rx : SigPoints,
     budget : {[power |-> 20000, gain |-> 3000, loss |-> 0]},
     freq : Frequencies, walls : {<<>>, <<WallEast>>}, pxScale : InvalidScales,
     ant : WallEffectAntennas, txAltitude : Altitudes, rxHeight : {RxHeight},
     done : {FALSE}]

\* Walls with an attenuation of 0 dB or more: a glass wall of 0 dB east of
\* the transmitter, and a concrete wall there whose thickness field of the
\* property panel was set to -1.5 m.
WallClear == Wall("w5", Pt(100, 20), Pt(100, 140), "Glass", 150, 300, 0)

WallNegative == Wall("w6", Pt(100, 20), Pt(100, 140), "Concrete", -1500, 300, 12000)

CapWallLists ==
    {<<>>, <<WallEast>>, <<WallClear>>, <<WallSouth, WallEast, WallZero>>,
     <<WallNegative>>, <<WallSouth, WallNegative>>}

\* Receiver heights in cm: on the floor, the 1.0 m of the callers, and the
\* height of the transmitter.
RxHeights == {0, 100, 250}

\* Calls whose result is compared with the EIRP.
EirpCapCalls ==
    [op : {"eirpCap"}, tx : {TxPoint}, rx : SigPoints, budget : LinkBudgets,
     freq : Frequencies, walls : CapWallLists, pxScale : {20},
     ant : WallEffectAntennas, txAltitude : Altitudes, rxHeight : RxHeights,
     done : {FALSE}]

\* Rotations of a directional antenna: negative ones, ones of 360 degrees
\* and more, and the range 0..360 of the property panel.
PatternRotations ==
    {-450, -360, -90, -45, 0, 30, 45, 90, 135, 180, 270, 315, 360, 405, 720}

\* Beamwidths: the range 10..360 of the property panel, and 0 and 400.
PatternBeamwidths == {0, 10, 60, 90, 180, 270, 360, 400}

\* Calls with a directional antenna, 1.5 m above the receiver.
PatternCalls ==
    [op : {"pattern"}, tx : {TxPoint}, rx : SigPoints,
     budget : {[power |-> 20000, gain |-> 3000, loss |-> 0]},
     freq : {5000}, walls : {<<>>}, pxScale : {20},
     ant : [type : {DIRECTIONAL}, rotation : PatternRotations,
            beamwidth : PatternBeamwidths],
     txAltitude : {250}, rxHeight : {RxHeight}, done : {FALSE}]

\* Heights (cm), materials and ids given to the walls of a list in place of
\* their own: walls lower than the receiver and the transmitter among them.
WallHeights == {0, 50, 300, 1000}

WallMaterials == {"Glass", "Metal"}

\* The same call with a wall list, and with the list whose walls differ in
\* height, material and id only.
WallFieldsCalls ==
    [op : {"wallFields"}, tx : {TxPoint}, rx : SigPoints,
     budget : {[power |-> 20000, gain |-> 3000, loss |-> 0]},
     freq : {5000}, walls : WallLists \ {<<>>}, height : WallHeights,
     material : WallMaterials, pxScale : {20}, ant : WallEffectAntennas,
     txAltitude : Altitudes, rxHeight : {RxHeight}, done : {FALSE}]

\* Rooms around the transmitter, dragged from the top left to the bottom
\* right corner and the other way round.
RoomDrags ==
    { <<Pt(40, 40), Pt(120, 120)>>, <<Pt(120, 120), Pt(40, 40)>>,
      <<Pt(40, 120), Pt(160, 40)>> }

RoomIds == <<"r1", "r2", "r3", "r4">>

StrictlyInside(p, p1, p3) ==
    /\ Min(p1.x, p3.x) < p.x /\ p.x < Max(p1.x, p3.x)
    /\ Min(p1.y, p3.y) < p.y /\ p.y < Max(p1.y, p3.y)

StrictlyOutside(p, p1, p3) ==
    \/ p.x < Min(p1.x, p3.x) \/ p.x > Max(p1.x, p3.x)
    \/ p.y < Min(p1.y, p3.y) \/ p.y > Max(p1.y, p3.y)

\* Calls with the transmitter strictly inside a room and the receiver
\* strictly outside it; the walls are those of the room.
RoomCalls ==
    { c \in [op : {"room"}, tx : SigPoints, rx : SigPoints, drag : RoomDrags,
             budget : {[power |-> 20000, gain |-> 3000, loss |-> 0]},
             freq : Frequencies, pxScale : {20}, ant : WallEffectAntennas,
             txAltitude : Altitudes, rxHeight : {RxHeight}, done : {FALSE}] :
        /\ StrictlyInside(c.tx, c.drag[1], c.drag[2])
        /\ StrictlyOutside(c.rx, c.drag[1], c.drag[2]) }

InitSignal ==
    /\ sig \in SignalCalls \cup CompareCalls \cup WallEffectCalls \cup RoundTripCalls
                   \cup ScaleGuardCalls \cup EirpCapCalls \cup PatternCalls
                   \cup WallFieldsCalls \cup RoomCalls
    /\ geo = Idle /\ met = Idle /\ ren = Idle /\ app = InitApp

\* calculateSignal on the arguments held in the call c, towards rx, with the
\* wall list walls.
SignalOf(c, rx, walls) ==
    calculateSignal(c.tx, rx, c.budget.power, c.budget.gain, c.budget.loss,
                    c.freq, walls, c.pxScale, c.ant.type, c.ant.rotation,
                    c.ant.beamwidth, c.txAltitude, c.rxHeight)

\* A calculateSignal that sorts the wall list it is given in place (here:
\* turns it round) before it walks through it.
CallCalculateSignal_reversesWalls ==
    /\ sig.op = "calculateSignal" /\ ~sig.done
    /\ sig' = [sig EXCEPT !.done = TRUE,
                          !.walls = [i \in 1..Len(sig.walls) |->
                                         sig.walls[Len(sig.walls) + 1 - i]]]
                  @@ [result |-> SignalOf(sig, sig.rx, sig.walls)]
    /\ UNCHANGED nonSig

CallCalculateSignal ==
    /\ sig.op = "calculateSignal" /\ ~sig.done
    /\ sig' = [sig EXCEPT !.done = TRUE] @@ [result |-> SignalOf(sig, sig.rx, sig.walls)]
    /\ UNCHANGED nonSig

CallCompare ==
    /\ sig.op = "compare" /\ ~sig.done
    /\ sig' = [sig EXCEPT !.done = TRUE]
                  @@ [result1 |-> SignalOf(sig, sig.rx1, <<>>),
                      result2 |-> SignalOf(sig, sig.rx2, <<>>)]
    /\ UNCHANGED nonSig

\* The wall with its thickness doubled.
Doubled(wall) == [wall EXCEPT !.thickness = 2 * wall.thickness]

CallWallEffect ==
    /\ sig.op = "wallEffect" /\ ~sig.done
    /\ sig' = [sig EXCEPT !.done = TRUE]
                  @@ [clear |-> SignalOf(sig, sig.rx, <<>>),
                      without |-> SignalOf(sig, sig.rx, sig.walls),
                      appended |-> SignalOf(sig, sig.rx, Append(sig.walls, sig.extra)),
                      prepended |-> SignalOf(sig, sig.rx, <<sig.extra>> \o sig.walls),
                      doubled |-> SignalOf(sig, sig.rx,
                                           Append(sig.walls, Doubled(sig.extra)))]
    /\ UNCHANGED nonSig

CallFreeSpaceRange ==
    /\ sig.op = "roundTrip" /\ sig.range = NoRange
    /\ sig' = [sig EXCEPT !.range =
                   calculateFreeSpaceRange(sig.budget.power, sig.freq, sig.minSignal,
                                           sig.budget.gain, sig.budget.loss)]
    /\ UNCHANGED nonSig

\* The receiver at the returned distance (whole cm) east of the transmitter,
\* and the receiver one cm beyond: the distance returned lies between the two.
CallSignalAtRange ==
    /\ sig.op = "roundTrip" /\ sig.range # NoRange /\ ~sig.done
    /\ sig' = [sig EXCEPT !.done = TRUE]
                  @@ [atRange |-> SignalOf(sig, Pt(sig.tx.x + sig.range, sig.tx.y), <<>>),
                      beyond |-> SignalOf(sig, Pt(sig.tx.x + sig.range + 1, sig.tx.y), <<>>)]
    /\ UNCHANGED nonSig

CallScaleGuard ==
    /\ sig.op = "scaleGuard" /\ ~sig.done
    /\ sig' = [sig EXCEPT !.done = TRUE]
                  @@ [result |-> SignalOf(sig, sig.rx, sig.walls),
                      atDefault |-> SignalOf([sig EXCEPT !.pxScale = 20],
                                             sig.rx, sig.walls)]
    /\ UNCHANGED nonSig

CallEirpCap ==
    /\ sig.op = "eirpCap" /\ ~sig.done
    /\ sig' = [sig EXCEPT !.done = TRUE] @@ [result |-> SignalOf(sig, sig.rx, sig.walls)]
    /\ UNCHANGED nonSig

\* The antenna with its rotation turned by a number of degrees.
Turned(ant, degrees) == [ant EXCEPT !.rotation = ant.rotation + degrees]

\* The call with the directional antenna, the call with an omnidirectional
\* one, and the calls with the rotation a full turn further and back; diff
\* is the local variable of the first call.
CallPattern ==
    /\ sig.op = "pattern" /\ ~sig.done
    /\ sig' = [sig EXCEPT !.done = TRUE]
                  @@ [result |-> SignalOf(sig, sig.rx, sig.walls),
                      omni |-> SignalOf([sig EXCEPT !.ant.type = OMNI],
                                        sig.rx, sig.walls),
                      further |-> SignalOf([sig EXCEPT !.ant = Turned(sig.ant, 360)],
                                           sig.rx, sig.walls),
                      back |-> SignalOf([sig EXCEPT !.ant = Turned(sig.ant, -360)],
                                        sig.rx, sig.walls),
                      diff |-> angleDifference(sig.rx.x - sig.tx.x,
                                               sig.rx.y - sig.tx.y,
                                               sig.ant.rotation)]
    /\ UNCHANGED nonSig

\* The wall list with other heights, materials and ids.
Relabelled(walls, height, material) ==
    [i \in 1..Len(walls) |->
        [walls[i] EXCEPT !.height = height, !.material = material,
                         !.id = "x" \o walls[i].id]]

CallWallFields ==
    /\ sig.op = "wallFields" /\ ~sig.done
    /\ sig' = [sig EXCEPT !.done = TRUE]
                  @@ [clear |-> SignalOf(sig, sig.rx, <<>>),
                      result |-> SignalOf(sig, sig.rx, sig.walls),
                      relabelled |->
                          SignalOf(sig, sig.rx,
                                   Relabelled(sig.walls, sig.height, sig.material))]
    /\ UNCHANGED nonSig

\* calculateSignal with the walls of the room, and without walls.
CallThroughRoom ==
    /\ sig.op = "room" /\ ~sig.done
    /\ sig' = [sig EXCEPT !.done = TRUE]
                  @@ [walls |-> BoxRoom(sig.drag[1], sig.drag[2], RoomIds),
                      clear |-> SignalOf(sig, sig.rx, <<>>),
                      result |-> SignalOf(sig, sig.rx,
                                          BoxRoom(sig.drag[1], sig.drag[2], RoomIds))]
    /\ UNCHANGED nonSig

NextSignal ==
    \/ CallCalculateSignal
    \/ CallCompare
    \/ CallWallEffect
    \/ CallFreeSpaceRange
    \/ CallSignalAtRange
    \/ CallScaleGuard
    \/ CallEirpCap
    \/ CallPattern
    \/ CallWallFields
    \/ CallThroughRoom

SpecSignal == InitSignal /\ [][NextSignal]_vars

\* ------------------------------------------------------------- renderers

\* `x || fallback` of JavaScript for a number x: the fallback for 0 and
\* for NaN.
OrElse(x, fallback) == IF x = 0 \/ x = NaN THEN fallback ELSE x

\* The loop of HeatmapCanvas over the access points in signal mode, from the
\* running maximum maxSignal. The altitude and the receiver height are not
\* passed: calculateSignal takes its defaults, 2.5 m and 1.0 m.
RECURSIVE HeatmapMaxSignal(_, _, _, _, _)
HeatmapMaxSignal(aps, rx, walls, scale, maxSignal) ==
    IF aps = <<>> THEN maxSignal
    ELSE LET ap == Head(aps)
             signal == calculateSignal(ap.position, rx, ap.txPower, ap.antennaGain,
                                       ap.cableLoss, ap.frequency, walls, scale,
                                       ap.antennaType, ap.rotation, ap.beamwidth,
                                       250, 100)
         IN  HeatmapMaxSignal(Tail(aps), rx, walls, scale,
                              IF signal > maxSignal THEN signal ELSE maxSignal)

\* The loop of HeatmapCanvas in throughput mode.
RECURSIVE HeatmapMaxThroughput(_, _, _, _, _)
HeatmapMaxThroughput(aps, rx, walls, scale, maxThroughput) ==
    IF aps = <<>> THEN maxThroughput
    ELSE LET ap == Head(aps)
             signal == calculateSignal(ap.position, rx, ap.txPower, ap.antennaGain,
                                       ap.cableLoss, ap.frequency, walls, scale,
                                       ap.antennaType, ap.rotation, ap.beamwidth,
                                       250, 100)
             throughput == calculateThroughput(signal, ap.wifiStandard, ap.channelWidth)
         IN  HeatmapMaxThroughput(Tail(aps), rx, walls, scale,
                                  IF throughput > maxThroughput THEN throughput
                                  ELSE maxThroughput)

\* What HeatmapCanvas computes for the cell whose centre is rx: the metric it
\* quantizes and the fill colour.
HeatmapCanvas(walls, accessPoints, scale, mode, rx) ==
    IF mode = "signal"
    THEN LET maxSignal == HeatmapMaxSignal(accessPoints, rx, walls, scale, -120000)
         IN  <<maxSignal, signalToColor(maxSignal)>>
    ELSE LET maxThroughput == HeatmapMaxThroughput(accessPoints, rx, walls, scale, 0)
         IN  <<maxThroughput, throughputToColor(maxThroughput)>>

\* The call of calculateSignal in Viewer3D, with its `||` fallbacks.
Viewer3DSignal(ap, pt, walls, scale) ==
    calculateSignal(ap.position, pt, OrElse(ap.txPower, 20000),
                    OrElse(ap.antennaGain, 0), OrElse(ap.cableLoss, 0),
                    OrElse(ap.frequency, 2400), walls, scale,
                    ap.antennaType, OrElse(ap.rotation, 0),
                    OrElse(ap.beamwidth, 360), OrElse(ap.altitude, 250), 100)

\* The loop of Viewer3D over the access points in signal mode.
RECURSIVE Viewer3DBestSignal(_, _, _, _, _)
Viewer3DBestSignal(aps, pt, walls, scale, bestMetric) ==
    IF aps = <<>> THEN bestMetric
    ELSE LET signal == Viewer3DSignal(Head(aps), pt, walls, scale)
         IN  Viewer3DBestSignal(Tail(aps), pt, walls, scale,
                                IF signal > bestMetric THEN signal ELSE bestMetric)

\* The loop of Viewer3D in throughput mode.
RECURSIVE Viewer3DBestThroughput(_, _, _, _, _)
Viewer3DBestThroughput(aps, pt, walls, scale, bestMetric) ==
    IF aps = <<>> THEN bestMetric
    ELSE LET ap == Head(aps)
             signal == Viewer3DSignal(ap, pt, walls, scale)
             tp == calculateThroughput(signal, ap.wifiStandard, OrElse(ap.channelWidth, 40))
         IN  Viewer3DBestThroughput(Tail(aps), pt, walls, scale,
                                    IF tp > bestMetric THEN tp ELSE bestMetric)

\* What Viewer3D computes for the floor vertex at pt: the metric it quantizes
\* and the vertex colour. scale = Math.max(0.1, pixelsPerMeter), which is
\* pixelsPerMeter for the whole numbers of pixels (at least 1) drawn here.
Viewer3D(walls, accessPoints, pixelsPerMeter, mode, pt) ==
    LET scale == pixelsPerMeter
    IN  IF mode = "signal"
        THEN LET best == Viewer3DBestSignal(accessPoints, pt, walls, scale, NegInfinity)
             IN  <<best, signalToRGB(best)>>
        ELSE LET best == Viewer3DBestThroughput(accessPoints, pt, walls, scale, NegInfinity)
             IN  <<best, throughputToRGB(best)>>

\* The loop of handleMouseMove over the access points in signal mode.
RECURSIVE CursorMaxSignal(_, _, _, _, _)
CursorMaxSignal(aps, rawWorldPos, walls, pixelsPerMeter, maxMetric) ==
    IF aps = <<>> THEN maxMetric
    ELSE LET ap == Head(aps)
             signal == calculateSignal(ap.position, rawWorldPos, ap.txPower,
                                       ap.antennaGain, ap.cableLoss, ap.frequency,
                                       walls, pixelsPerMeter, ap.antennaType,
                                       ap.rotation, ap.beamwidth, ap.altitude, 100)
         IN  CursorMaxSignal(Tail(aps), rawWorldPos, walls, pixelsPerMeter,
                             IF signal > maxMetric THEN signal ELSE maxMetric)

\* The loop of handleMouseMove in throughput mode.
RECURSIVE CursorMaxThroughput(_, _, _, _, _)
CursorMaxThroughput(aps, rawWorldPos, walls, pixelsPerMeter, maxMetric) ==
    IF aps = <<>> THEN maxMetric
    ELSE LET ap == Head(aps)
             signal == calculateSignal(ap.position, rawWorldPos, ap.txPower,
                                       ap.antennaGain, ap.cableLoss, ap.frequency,
                                       walls, pixelsPerMeter, ap.antennaType,
                                       ap.rotation, ap.beamwidth, ap.altitude, 100)
             tp == calculateThroughput(signal, ap.wifiStandard, ap.channelWidth)
         IN  CursorMaxThroughput(Tail(aps), rawWorldPos, walls, pixelsPerMeter,
                                 IF tp > maxMetric THEN tp ELSE maxMetric)

\* The cursor readout of handleMouseMove: <<value, unit>>.
CursorMetric(walls, accessPoints, pixelsPerMeter, vizMode, rawWorldPos) ==
    IF vizMode = "signal"
    THEN <<CursorMaxSignal(accessPoints, rawWorldPos, walls, pixelsPerMeter, -120000), "dBm">>
    ELSE <<CursorMaxThroughput(accessPoints, rawWorldPos, walls, pixelsPerMeter, 0), "Mbps">>

\* What handleExport computes for the cell of the exported image whose
\* centre is rx: the metric it quantizes and the fill colour. Its two loops
\* are those of handleMouseMove, statement by statement.
HandleExport(walls, accessPoints, pixelsPerMeter, vizMode, rx) ==
    IF vizMode = "signal"
    THEN LET maxSignal == CursorMaxSignal(accessPoints, rx, walls, pixelsPerMeter, -120000)
         IN  <<maxSignal, signalToColor(maxSignal)>>
    ELSE LET maxTp == CursorMaxThroughput(accessPoints, rx, walls, pixelsPerMeter, 0)
         IN  <<maxTp, throughputToColor(maxTp)>>

\* scale of Viewer3D, Math.max(0.1, pixelsPerMeter), in tenths of a pixel
\* per metre; pixelsPerMeter in whole pixels per metre.
Viewer3DScale(pixelsPerMeter) ==
    IF pixelsPerMeter = NaN THEN NaN
    ELSE IF pixelsPerMeter = PosInfinity THEN PosInfinity
    ELSE IF pixelsPerMeter = NegInfinity THEN 1
    ELSE Max(1, 10 * pixelsPerMeter)

\* The signal sphere that Viewer3D draws around an access point: the range
\* estimated for -75 dBm in cm, the range used, the scale, and the radius
\* rangePx in thousandths of a pixel.
SignalSphere(ap, pixelsPerMeter) ==
    LET scale == Viewer3DScale(pixelsPerMeter)
        rangeMeters ==
            calculateFreeSpaceRange(OrElse(ap.txPower, 20000), OrElse(ap.frequency, 5000),
                                    -75000, OrElse(ap.antennaGain, 0),
                                    OrElse(ap.cableLoss, 0))
        safeRangeMeters ==
            IF IsFinite(rangeMeters) /\ JsGreater(rangeMeters, 0) THEN rangeMeters ELSE 100
    IN  [rangeMeters |-> rangeMeters, safeRangeMeters |-> safeRangeMeters,
         scale |-> scale, rangePx |-> JsTimes(safeRangeMeters, scale)]

\* ---------------------------------------------- specification: renderers

AccessPoint(id, position, altitude, txPower, antenna, phy) ==
    [id |-> id, position |-> position, altitude |-> altitude, txPower |-> txPower,
     antennaGain |-> 3000, cableLoss |-> 0, wifiStandard |-> phy.standard,
     frequency |-> 5000, channelWidth |-> phy.width, antennaType |-> antenna.type,
     rotation |-> antenna.rotation, beamwidth |-> antenna.beamwidth]

\* The altitudes of the access points, in cm: the default of 2.5 m, 3 m, and 0.
ApAltitudes == {250, 300, 0}

\* The transmit powers, in mdB: 20 dBm, and 0.
ApPowers == {20000, 0}

ApAntennas ==
    { [type |-> OMNI, rotation |-> 0, beamwidth |-> 60],
      [type |-> DIRECTIONAL, rotation |-> 0, beamwidth |-> 60] }

\* The standard and channel width of a new access point, and an older one.
ApPhys == { [standard |-> "802.11ax", width |-> 40], [standard |-> "802.11n", width |-> 20] }

\* An access point at the first position, as the AP tool creates it but for
\* its altitude, power and antenna; and one at the second position, at the
\* default altitude and power and omnidirectional, of either standard.
FirstAPs ==
    { AccessPoint("a1", TxPoint, h, p, a, [standard |-> "802.11ax", width |-> 40]) :
        h \in ApAltitudes, p \in ApPowers, a \in ApAntennas }

SecondAPs ==
    { AccessPoint("a2", Pt(160, 120), 250, 20000,
                  [type |-> OMNI, rotation |-> 0, beamwidth |-> 60], phy) :
        phy \in ApPhys }

\* A metal wall of 0.9 m east of the first access point: 120 dB.
WallVault == Wall("w4", Pt(100, 20), Pt(100, 140), "Metal", 900, 300, 20000)

\* The documents have one or two access points.
AccessPointLists ==
    {<<a>> : a \in FirstAPs} \cup {<<a, b>> : a \in FirstAPs, b \in SecondAPs}

NoResult == <<>>

\* A document and a sample point, before any renderer has run.
RenderJobs ==
    [op : {"render"}, walls : {<<>>, <<WallVault>>},
     accessPoints : AccessPointLists, pixelsPerMeter : {20},
     vizMode : {"signal", "throughput"}, pt : SigPoints,
     heat : {NoResult}, floor : {NoResult}, cursor : {NoResult}, export : {NoResult}]

\* The access points whose signal sphere is drawn: transmit powers that are
\* finite, 0 or not finite, either band or none, with and without antenna
\* gain and cable loss.
SphereAPs ==
    { [AccessPoint("a1", TxPoint, 250, p,
                   [type |-> OMNI, rotation |-> 0, beamwidth |-> 60],
                   [standard |-> "802.11ax", width |-> 40])
          EXCEPT !.frequency = f, !.antennaGain = g, !.cableLoss = l] :
        p \in {20000, 26000, 0, NaN, PosInfinity, NegInfinity},
        f \in {2400, 5000, 0}, g \in {3000, 0}, l \in {0, 2000} }

\* The scales that the editor can hand to Viewer3D, in pixels per metre: the
\* default, a calibrated one, and the 0 and +Infinity that a calibration
\* answered with "Infinity" or "1e-320" leaves.
SphereScales == {20, 50, 0, PosInfinity}

SphereJobs ==
    [op : {"sphere"}, ap : SphereAPs, pixelsPerMeter : SphereScales,
     sphere : {NoResult}]

InitRender ==
    /\ ren \in RenderJobs \cup SphereJobs
    /\ geo = Idle /\ sig = Idle /\ met = Idle /\ app = InitApp

\* The effect of HeatmapCanvas reaches the cell whose centre is the sample
\* point (with no access point it returns before the loop).
RenderHeatmap ==
    /\ ren.op = "render" /\ ren.heat = NoResult
    /\ Len(ren.accessPoints) # 0
    /\ ren' = [ren EXCEPT !.heat = HeatmapCanvas(ren.walls, ren.accessPoints,
                                                 ren.pixelsPerMeter, ren.vizMode, ren.pt)]
    /\ UNCHANGED nonRen

\* The effect of Viewer3D reaches the floor vertex at the sample point.
RenderFloor3D ==
    /\ ren.op = "render" /\ ren.floor = NoResult
    /\ Len(ren.accessPoints) > 0
    /\ ren' = [ren EXCEPT !.floor = Viewer3D(ren.walls, ren.accessPoints,
                                             ren.pixelsPerMeter, ren.vizMode, ren.pt)]
    /\ UNCHANGED nonRen

\* The mouse moves over the sample point in the 2D view.
HandleMouseMove ==
    /\ ren.op = "render" /\ ren.cursor = NoResult
    /\ Len(ren.accessPoints) > 0
    /\ ren' = [ren EXCEPT !.cursor = CursorMetric(ren.walls, ren.accessPoints,
                                                  ren.pixelsPerMeter, ren.vizMode, ren.pt)]
    /\ UNCHANGED nonRen

\* The image is exported: the effect of handleExport reaches the cell whose
\* centre is the sample point (the heatmap is shown, showHeatmap being true).
ExportImage ==
    /\ ren.op = "render" /\ ren.export = NoResult
    /\ Len(ren.accessPoints) > 0
    /\ ren' = [ren EXCEPT !.export = HandleExport(ren.walls, ren.accessPoints,
                                                  ren.pixelsPerMeter, ren.vizMode, ren.pt)]
    /\ UNCHANGED nonRen

\* Viewer3D builds the signal sphere of the access point.
RenderSignalSphere ==
    /\ ren.op = "sphere" /\ ren.sphere = NoResult
    /\ ren' = [ren EXCEPT !.sphere = SignalSphere(ren.ap, ren.pixelsPerMeter)]
    /\ UNCHANGED nonRen

NextRender ==
    \/ RenderHeatmap
    \/ RenderFloor3D
    \/ HandleMouseMove
    \/ ExportImage
    \/ RenderSignalSphere

SpecRender == InitRender /\ [][NextRender]_vars

\* ------------------------------------------------- specification: 3D viewer

\* The scales that the scale field sets, in whole pixels per metre.
ViewerScales == {10, 20, 40}

\* The heights that the transform control moves an access point to, in cm.
ViewerHeights == {0, 100, 250, 300}

\* App in the 2D view with one access point at the default altitude; the
\* 3D viewer is not mounted.
InitViewer3D ==
    [op |-> "viewer3D", mode |-> "2D", pixelsPerMeter |-> 20, altitude |-> 250,
     mounted |-> FALSE, scale |-> Null, placedScale |-> Null, meshZ |-> Null,
     attached |-> FALSE, change |-> Null]

\* The second effect of Viewer3D: the meshes are removed (a transform control
\* attached to one of them is detached) and built again, the group of the
\* access point at (ap.altitude || 2.5) * scale; z in thousandths of a pixel.
ContentEffect(v) ==
    LET scale == Viewer3DScale(v.pixelsPerMeter)
    IN  [v EXCEPT !.placedScale = scale,
                  !.meshZ = OrElse(v.altitude, 250) * scale,
                  !.attached = FALSE]

\* The button 3D: Viewer3D is mounted, its first effect keeps the scale of
\* this moment in the listener of the transform control, its second effect
\* places the meshes.
SetMode3D ==
    /\ ren.op = "viewer3D" /\ ren.mode = "2D"
    /\ ren' = ContentEffect([ren EXCEPT !.mode = "3D", !.mounted = TRUE,
                                        !.scale = Viewer3DScale(ren.pixelsPerMeter),
                                        !.change = Null])
    /\ UNCHANGED nonRen

\* The button 2D: Viewer3D is unmounted.
SetMode2D ==
    /\ ren.op = "viewer3D" /\ ren.mode = "3D"
    /\ ren' = [ren EXCEPT !.mode = "2D", !.mounted = FALSE, !.scale = Null,
                          !.placedScale = Null, !.meshZ = Null,
                          !.attached = FALSE, !.change = Null]
    /\ UNCHANGED nonRen

\* The scale field of the sidebar is given a valid value and left
\* (handleScaleInputBlur); a mounted Viewer3D runs its second effect.
SetViewerScale ==
    /\ ren.op = "viewer3D"
    /\ \E val \in ViewerScales :
          /\ val # ren.pixelsPerMeter
          /\ ren' = IF ren.mounted
                    THEN ContentEffect([ren EXCEPT !.pixelsPerMeter = val,
                                                   !.change = Null])
                    ELSE [ren EXCEPT !.pixelsPerMeter = val]
    /\ UNCHANGED nonRen

\* pointerdown on the mesh of the access point: the transform control is
\* attached to it.
AttachTransform ==
    /\ ren.op = "viewer3D" /\ ren.mounted /\ ~ren.attached
    /\ ren' = [ren EXCEPT !.attached = TRUE, !.change = Null]
    /\ UNCHANGED nonRen

\* The transform control moves the mesh to a height and fires 'change': the
\* listener calls onUpdateAP with z = mesh.position.z / scale, App stores it
\* as the altitude (cm), and the second effect runs on the new access points.
TransformChange ==
    /\ ren.op = "viewer3D" /\ ren.mounted /\ ren.attached
    /\ \E h \in ViewerHeights :
          LET z == h * ren.placedScale
              reported == z \div ren.scale
          IN  ren' = ContentEffect(
                         [ren EXCEPT !.altitude = reported,
                                     !.change = [meshZ |-> z,
                                                 placedScale |-> ren.placedScale,
                                                 altitude |-> reported]])
    /\ UNCHANGED nonRen

InitViewer ==
    /\ ren = InitViewer3D
    /\ geo = Idle /\ sig = Idle /\ met = Idle /\ app = InitApp

NextViewer ==
    \/ SetMode3D
    \/ SetMode2D
    \/ SetViewerScale
    \/ AttachTransform
    \/ TransformChange

SpecViewer == InitViewer /\ [][NextViewer]_vars

\* ----------------------------------------------------- specification: scale

\* 1e-320, a positive number far below the thousandths that the model
\* counts in; no other number of the model is as small as a thousandth.
Denormal == 1

\* parseFloat on the texts entered: the number in thousandths, NaN for a
\* text that starts with no number, +Infinity for "Infinity".
parseFloat(text) ==
    CASE text = "" -> NaN
      [] text = "abc" -> NaN
      [] text = "0" -> 0
      [] text = "-5" -> -5000
      [] text = "-2" -> -2000
      [] text = "2.5" -> 2500
      [] text = "40" -> 40000
      [] text = "Infinity" -> PosInfinity
      [] text = "1e-320" -> Denormal

isNaN(x) == x = NaN

\* The content of the scale field: a text typed into it, or the text that
\* toFixed(2) wrote; parseFloat of the latter is the number written.
ParseField(content) ==
    IF "text" \in DOMAIN content THEN parseFloat(content.text)
    ELSE IF content.fixed = PosInfinity THEN PosInfinity
    ELSE content.fixed * 10

\* x / y of JavaScript for a finite x > 0 and a y > 0, in thousandths
\* (rounded down): a finite number divided by +Infinity is 0, and a number of
\* pixels divided by 1e-320 overflows to +Infinity.
JsDivide(x, y) ==
    IF y = PosInfinity THEN 0
    ELSE IF y = Denormal THEN PosInfinity
    ELSE (x * 1000) \div y

\* distance(a, b) in thousandths of a pixel (to a hundredth, rounded down).
distance(a, b) == Isqrt(distanceSq(a, b) * 10000) * 10

\* The effect on [pixelsPerMeter]: when a handler has changed pixelsPerMeter,
\* the scale field is rewritten from it.
AfterScaleEffect(next) ==
    IF next.pixelsPerMeter # app.pixelsPerMeter
    THEN [next EXCEPT !.manualScaleInput = toFixed2(next.pixelsPerMeter)]
    ELSE next

\* The points of the calibration gestures: lines of 0, 5, 6 and 45 to
\* 50 ScaleMax pixels.
ScaleMax == 1

ScalePoints ==
    {Pt(0, 0), Pt(3, 4), Pt(6, 0)} \cup {Pt(30 * k, 40 * k) : k \in 1..ScaleMax}

\* The texts typed into the scale field (a number field), and the answers to
\* the prompt for the length in metres: a text, or none when it is cancelled.
FieldTexts == {"", "0", "-5", "40"}

PromptTexts == {"", "abc", "0", "-2", "2.5", "Infinity", "1e-320"}

PromptAnswers ==
    {[cancelled |-> TRUE, text |-> ""]} \cup [cancelled : {FALSE}, text : PromptTexts]

\* A click on the select or the scale button of the toolbar.
SetTool ==
    \E t \in {"select", "scale"} :
        /\ app.tool # t
        /\ app' = [app EXCEPT !.tool = t]
        /\ UNCHANGED nonApp

\* handleMouseDown with the scale tool: a calibration line starts.
HandleMouseDown ==
    \E rawWorldPos \in ScalePoints :
        /\ app.tool = "scale"
        /\ app' = [app EXCEPT
                       !.tempScaleLine = [start |-> rawWorldPos, end |-> rawWorldPos],
                       !.interaction = [type |-> "scaling", startWorld |-> rawWorldPos]]
        /\ UNCHANGED nonApp

\* handleMouseMove while scaling: the line follows the mouse.
HandleMouseMoveScaling ==
    \E rawWorldPos \in ScalePoints :
        /\ app.interaction # Null /\ app.interaction.type = "scaling"
        /\ app.tempScaleLine # Null
        /\ app.tempScaleLine.end # rawWorldPos
        /\ app' = [app EXCEPT !.tempScaleLine.end = rawWorldPos]
        /\ UNCHANGED nonApp

\* handleMouseUp while scaling: a line longer than 5 pixels schedules the
\* prompt (setTimeout) with its length, a shorter one is dropped.
HandleMouseUp ==
    /\ app.interaction # Null /\ app.interaction.type = "scaling"
    /\ app.tempScaleLine # Null
    /\ app.prompt = Null
    /\ LET start == app.tempScaleLine.start
           end == app.tempScaleLine.end
       IN  app' = IF distanceSq(start, end) > 25
                  THEN [app EXCEPT !.prompt = [pxLen |-> distance(start, end)],
                                   !.interaction = Null]
                  ELSE [app EXCEPT !.tempScaleLine = Null, !.interaction = Null]
    /\ UNCHANGED nonApp

\* The scheduled callback of handleMouseUp: the prompt is answered.
PromptAnswered ==
    \E input \in PromptAnswers :
        /\ app.prompt # Null
        /\ LET meters == IF ~input.cancelled /\ input.text # ""
                         THEN parseFloat(input.text) ELSE NaN
               newScale == JsDivide(app.prompt.pxLen, meters)
               closed == [app EXCEPT !.tempScaleLine = Null, !.tool = "select",
                                     !.prompt = Null]
           IN  app' = IF ~isNaN(meters) /\ JsGreater(meters, 0)
                      THEN AfterScaleEffect([closed EXCEPT !.pixelsPerMeter = newScale])
                      ELSE closed
        /\ UNCHANGED nonApp

\* handleScaleInputChange: a text is typed into the scale field.
HandleScaleInputChange ==
    \E text \in FieldTexts :
        /\ app.manualScaleInput # [text |-> text]
        /\ app' = [app EXCEPT !.manualScaleInput = [text |-> text]]
        /\ UNCHANGED nonApp

\* handleScaleInputBlur (also the Enter key): the field is taken over, or
\* rewritten from pixelsPerMeter.
HandleScaleInputBlur ==
    /\ LET val == ParseField(app.manualScaleInput)
       IN  app' = IF ~isNaN(val) /\ JsGreater(val, 0)
                  THEN AfterScaleEffect([app EXCEPT !.pixelsPerMeter = val])
                  ELSE [app EXCEPT !.manualScaleInput = toFixed2(app.pixelsPerMeter)]
    /\ app' # app
    /\ UNCHANGED nonApp

InitScale == app = InitApp /\ geo = Idle /\ sig = Idle /\ met = Idle /\ ren = Idle

NextScale ==
    \/ SetTool
    \/ HandleMouseDown
    \/ HandleMouseMoveScaling
    \/ HandleMouseUp
    \/ PromptAnswered
    \/ HandleScaleInputChange
    \/ HandleScaleInputBlur

SpecScale == InitScale /\ [][NextScale]_vars

\* ------------------------------------------------ specification: core calls

\* Calls of the core made side by side by different callers: an intersects
\* call, a calculateSignal or calculateFreeSpaceRange call, and a
\* calculateThroughput or quantizer call, each of them made a second time on
\* the same arguments while the others go on.
PureGeomCalls ==
    {c \in GeomCalls : c.op = "intersects" /\ c.a = Pt(0, 0) /\ c.b = Pt(GeoMax, GeoMax)
                           /\ c.d = Pt(GeoMax, 0)}

PureSignalCalls ==
    {c \in SignalCalls : /\ c.rx \in {Pt(0, 0), Pt(160, 80)}
                         /\ c.budget.power = 20000 /\ c.freq = 5000 /\ c.pxScale = 20
                         /\ c.ant.rotation = 0 /\ c.ant.beamwidth = 60
                         /\ c.txAltitude = 250}
    \cup {c \in RoundTripCalls : /\ c.budget = [power |-> 20000, gain |-> 3000, loss |-> 0]
                                 /\ c.minSignal = -75000}

PureMetricCalls ==
    {c \in MetricCalls :
        \/ /\ c.op = "calculateThroughput" /\ c.rssi \in {-50000, -95000}
           /\ c.standard = "802.11ax" /\ c.channelWidth \in {40, 160}
        \/ c.op = "quantizeSignal" /\ c.value \in {-60000, -90000}
        \/ c.op = "quantizeThroughput" /\ c.value \in {100, 600}}

InitPure ==
    /\ geo \in PureGeomCalls /\ sig \in PureSignalCalls /\ met \in PureMetricCalls
    /\ ren = Idle /\ app = InitApp

Repeated(call) == "again" \in DOMAIN call

\* The same intersects call once more.
RepeatIntersects ==
    /\ geo.op = "intersects" /\ geo.done /\ ~Repeated(geo)
    /\ geo' = geo @@ [again |-> intersects(geo.a, geo.b, geo.c, geo.d)]
    /\ UNCHANGED nonGeo

\* The same calculateSignal or calculateFreeSpaceRange call once more.
RepeatSignalCall ==
    /\ ~Repeated(sig)
    /\ \/ /\ sig.op = "calculateSignal" /\ sig.done
          /\ sig' = sig @@ [again |-> SignalOf(sig, sig.rx, sig.walls)]
       \/ /\ sig.op = "roundTrip" /\ sig.range # NoRange
          /\ sig' = sig @@ [again |->
                       calculateFreeSpaceRange(sig.budget.power, sig.freq, sig.minSignal,
                                               sig.budget.gain, sig.budget.loss)]
    /\ UNCHANGED nonSig

\* The same calculateThroughput call, or the same two quantizer calls, once
\* more.
RepeatMetricCall ==
    /\ ~Repeated(met)
    /\ \/ /\ met.op = "calculateThroughput" /\ met.done
          /\ met' = met @@ [again |-> calculateThroughput(met.rssi, met.standard,
                                                          met.channelWidth)]
       \/ /\ met.op = "quantizeSignal" /\ met.color # NoColor /\ met.rgb # NoColor
          /\ met' = met @@ [again |-> <<signalToColor(met.value), signalToRGB(met.value)>>]
       \/ /\ met.op = "quantizeThroughput" /\ met.color # NoColor /\ met.rgb # NoColor
          /\ met' = met @@ [again |-> <<throughputToColor(met.value),
                                        throughputToRGB(met.value)>>]
    /\ UNCHANGED nonMet

NextPure ==
    \/ CallIntersects
    \/ CallCalculateSignal
    \/ CallFreeSpaceRange
    \/ CallCalculateThroughput
    \/ CallSignalToColor
    \/ CallSignalToRGB
    \/ CallThroughputToColor
    \/ CallThroughputToRGB
    \/ RepeatIntersects
    \/ RepeatSignalCall
    \/ RepeatMetricCall

SpecPure == InitPure /\ [][NextPure]_vars

\* ---------------------------------------------------- specification: editor

\* The editor (App) in the 2D view, with the view at the origin of the page
\* and a zoom of 1. React renders the state changes of a discrete event
\* (mousedown, mouseup, click) before the next event is handled; those of a
\* continuous event (mousemove, mouseleave) may still be pending when the
\* next event arrives, and the handlers of that event then read the values
\* of the last render (app.seen) while their updater functions work on the
\* current state.

\* The screen positions of the cursor, in pixels.
CursorPoints ==
    {Pt(40, 40), Pt(43, 40), Pt(60, 40), Pt(80, 40), Pt(60, 60), Pt(80, 80)}

\* The mouse events on the canvas and the clicks on buttons handled in one
\* run, the walls and access points of a document, and the range of the
\* coordinates and of the pan offset.
EditorMaxEvents == 3

EditorMaxClicks == 2

EditorMaxWalls == 4

EditorMaxAPs == 1

EditorMaxCoord == 120

EditorMaxPan == 40

\* The elements of a list.
Range(list) == {list[i] : i \in 1..Len(list)}

\* screenToWorld at zoom 1, the canvas at the origin of the page.
screenToWorld(screen, pan) == Pt(screen.x - pan.x, screen.y - pan.y)

\* The first loop of getSnappedPos: the first endpoint of a wall nearer than
\* snapThreshold = 15 (the distance squared below 225), or Null.
RECURSIVE SnapToEndpoint(_, _)
SnapToEndpoint(pos, walls) ==
    IF walls = <<>> THEN Null
    ELSE IF distanceSq(pos, Head(walls).start) < 225 THEN Head(walls).start
    ELSE IF distanceSq(pos, Head(walls).end) < 225 THEN Head(walls).end
    ELSE SnapToEndpoint(pos, Tail(walls))

\* Math.round(v / gridSize) * gridSize; halves are rounded up.
RoundToGrid(v, gridSize) == ((2 * v + gridSize) \div (2 * gridSize)) * gridSize

\* gridSize = pixelsPerMeter, a whole number of pixels in this specification.
getSnappedPos(pos, snappingEnabled, walls, pixelsPerMeter) ==
    LET endpoint == SnapToEndpoint(pos, walls)
        gridSize == pixelsPerMeter \div 1000
        gridX == RoundToGrid(pos.x, gridSize)
        gridY == RoundToGrid(pos.y, gridSize)
    IN  IF ~snappingEnabled THEN pos
        ELSE IF endpoint # Null THEN endpoint
        ELSE IF gridSize > 5
        THEN Pt(IF Abs(pos.x - gridX) < 15 THEN gridX ELSE pos.x,
                IF Abs(pos.y - gridY) < 15 THEN gridY ELSE pos.y)
        ELSE pos

\* pointToLineDistance(p, v, w) < radius. The squared distance is that to
\* the nearer end when the foot of the perpendicular lies off the segment,
\* and cross^2 / l2 otherwise (the quotient n / d of pointToLineDistance
\* reduced by l2, which keeps the products within 32 bits).
pointToLineDistanceBelow(p, v, w, radius) ==
    LET l2 == distanceSq(v, w)
        num == (p.x - v.x) * (w.x - v.x) + (p.y - v.y) * (w.y - v.y)
        cross == (p.x - v.x) * (w.y - v.y) - (p.y - v.y) * (w.x - v.x)
    IN  IF l2 = 0 \/ num <= 0 THEN distanceSq(p, v) < radius * radius
        ELSE IF num >= l2 THEN distanceSq(p, w) < radius * radius
        ELSE cross * cross < radius * radius * l2

Hit(type, id, handle) == [type |-> type, id |-> id, handle |-> handle]

\* The loop of getObjectAt over the access points, from the last to the
\* first: the rotation handle of the selected one (hitRadius = 10), or the
\* body (radius 20).
RECURSIVE HitAccessPoint(_, _, _)
HitAccessPoint(pos, accessPoints, selectedObject) ==
    IF accessPoints = <<>> THEN Null
    ELSE LET ap == accessPoints[Len(accessPoints)]
             handlePos == Pt(ap.position.x + 25, ap.position.y - 25)
         IN  IF /\ selectedObject # Null
                /\ selectedObject.id = ap.id /\ selectedObject.type = "ap"
                /\ distanceSq(pos, handlePos) < 100
             THEN Hit("ap", ap.id, "rotate")
             ELSE IF distanceSq(pos, ap.position) < 400
             THEN Hit("ap", ap.id, "center")
             ELSE HitAccessPoint(pos, SubSeq(accessPoints, 1, Len(accessPoints) - 1),
                                 selectedObject)

\* The loop of getObjectAt over the walls: an end of a wall, or its body.
RECURSIVE HitWall(_, _, _)
HitWall(pos, walls, ignoreWallBody) ==
    IF walls = <<>> THEN Null
    ELSE LET wall == Head(walls)
         IN  IF distanceSq(pos, wall.start) < 100 THEN Hit("wall", wall.id, "start")
             ELSE IF distanceSq(pos, wall.end) < 100 THEN Hit("wall", wall.id, "end")
             ELSE IF ~ignoreWallBody
                     /\ pointToLineDistanceBelow(pos, wall.start, wall.end, 10)
             THEN Hit("wall", wall.id, "center")
             ELSE HitWall(pos, Tail(walls), ignoreWallBody)

getObjectAt(pos, ignoreWallBody, accessPoints, walls, selectedObject) ==
    LET hitAP == HitAccessPoint(pos, accessPoints, selectedObject)
    IN  IF hitAP # Null THEN hitAP ELSE HitWall(pos, walls, ignoreWallBody)

Interaction(type, startScreen, startWorld, currentWorld, activeId, handle) ==
    [type |-> type, startScreen |-> startScreen, startWorld |-> startWorld,
     currentWorld |-> currentWorld, activeId |-> activeId, handle |-> handle]

\* An access point as the AP tool creates it, as far as the editor works on
\* it.
NewAP(id, position) == [id |-> id, position |-> position, rotation |-> 0]

\* What the handlers created by a render hold of the state.
Closure(a) ==
    [tool |-> a.tool, snappingEnabled |-> a.snappingEnabled, walls |-> a.walls,
     accessPoints |-> a.accessPoints, selectedObject |-> a.selectedObject,
     pan |-> a.pan, interaction |-> a.interaction]

\* The component is rendered: the handlers are created anew.
Rendered(a) == [a EXCEPT !.seen = Closure(a)]

\* A mouse event on the canvas, or a click on a button, is counted.
Handled(a, event) ==
    IF event = "click" THEN [a EXCEPT !.clicks = @ + 1] ELSE [a EXCEPT !.events = @ + 1]

\* The documents that a run starts from: the empty one of a new session, one
\* with a wall drawn with the line tool, and one with a room.
EditorDocuments ==
    { <<>>, <<NewWall(1, Pt(40, 40), Pt(80, 40))>>,
      BoxRoom(Pt(40, 40), Pt(80, 80), <<1, 2, 3, 4>>) }

InitEditorApp(walls) ==
    Rendered([tool |-> "select", snappingEnabled |-> TRUE, walls |-> walls,
              accessPoints |-> <<>>, pixelsPerMeter |-> 20000, selectedObject |-> Null,
              pan |-> Pt(0, 0), interaction |-> Null, nextId |-> Len(walls) + 1,
              events |-> 0, clicks |-> 0, cursor |-> Null, grab |-> Null,
              seen |-> Null])

\* The coordinates of the document and the pan offset stay in their ranges.
InEditorRange(a) ==
    /\ \A i \in 1..Len(a.walls) :
          \A p \in {a.walls[i].start, a.walls[i].end} :
              /\ p.x >= 0 /\ p.x <= EditorMaxCoord
              /\ p.y >= 0 /\ p.y <= EditorMaxCoord
    /\ Abs(a.pan.x) <= EditorMaxPan /\ Abs(a.pan.y) <= EditorMaxPan

\* handleMouseDown: the left (0) or the right (2) button is pressed at a
\* screen position. The tool is none of this specification's when it is
\* 'scale' (see SpecScale).
EditorMouseDown ==
    /\ app.events < EditorMaxEvents
    /\ \E screen \in CursorPoints, button \in {0, 2} :
          LET seen == app.seen
              rawWorldPos == screenToWorld(screen, seen.pan)
              snappedPos == getSnappedPos(rawWorldPos, seen.snappingEnabled,
                                          seen.walls, app.pixelsPerMeter)
              hit == getObjectAt(rawWorldPos, FALSE, seen.accessPoints,
                                 seen.walls, seen.selectedObject)
              next ==
                  IF button = 2
                  THEN [app EXCEPT !.interaction =
                            Interaction("panning", screen, rawWorldPos, Null, Null, Null)]
                  ELSE IF seen.tool = "wall_room"
                  THEN [app EXCEPT !.interaction =
                            Interaction("drawing_room", screen, snappedPos, snappedPos,
                                        Null, Null),
                                   !.selectedObject = Null]
                  ELSE IF seen.tool = "wall_line"
                  THEN [app EXCEPT !.interaction =
                            Interaction("drawing_line", screen, snappedPos, snappedPos,
                                        Null, Null),
                                   !.selectedObject = Null]
                  ELSE IF seen.tool = "ap"
                  THEN [app EXCEPT !.accessPoints =
                            Append(seen.accessPoints, NewAP(app.nextId, rawWorldPos)),
                                   !.selectedObject = [type |-> "ap", id |-> app.nextId],
                                   !.tool = "select", !.nextId = @ + 1]
                  ELSE IF hit # Null
                  THEN [app EXCEPT !.selectedObject = [type |-> hit.type, id |-> hit.id],
                                   !.interaction =
                            Interaction(IF hit.handle = "rotate" THEN "rotating"
                                        ELSE "dragging",
                                        screen, rawWorldPos, Null, hit.id, hit.handle)]
                  ELSE [app EXCEPT !.selectedObject = Null]
              \* for the record: the wall grabbed by its body as it is when
              \* the button goes down, and the position of the cursor
              grab ==
                  IF /\ button = 0 /\ seen.tool = "select" /\ hit # Null
                     /\ hit.type = "wall" /\ hit.handle = "center"
                  THEN LET wall == CHOOSE w \in Range(app.walls) : w.id = hit.id
                       IN  [id |-> hit.id, start |-> wall.start, end |-> wall.end,
                            world |-> rawWorldPos]
                  ELSE Null
          IN  /\ (button = 0 /\ seen.tool = "wall_room") =>
                     Len(app.walls) + 4 <= EditorMaxWalls
              /\ (button = 0 /\ seen.tool = "wall_line") =>
                     Len(app.walls) + 1 <= EditorMaxWalls
              /\ (button = 0 /\ seen.tool = "ap") =>
                     Len(app.accessPoints) < EditorMaxAPs
              /\ app' = Rendered(Handled([next EXCEPT !.grab = grab, !.cursor = Null],
                                          "mousedown"))
    /\ UNCHANGED nonApp

\* The walls after a mouse-move of a drag: an end of the active wall goes to
\* the target position, or the whole wall moves by the difference between
\* the cursor and interaction.startWorld.
DragWall(walls, interaction, targetPos, rawWorldPos) ==
    LET dX == rawWorldPos.x - interaction.startWorld.x
        dY == rawWorldPos.y - interaction.startWorld.y
    IN  [i \in 1..Len(walls) |->
            IF walls[i].id # interaction.activeId THEN walls[i]
            ELSE IF interaction.handle = "start" THEN [walls[i] EXCEPT !.start = targetPos]
            ELSE IF interaction.handle = "end" THEN [walls[i] EXCEPT !.end = targetPos]
            ELSE [walls[i] EXCEPT !.start = Pt(@.x + dX, @.y + dY),
                                  !.end = Pt(@.x + dX, @.y + dY)]]

\* handleMouseMove, after the cursor metric: the handler reads interaction,
\* selectedObject, accessPoints, walls and pan of the last render; what it
\* passes to the setters as a function works on the current state.
handleMouseMove(a, screen) ==
    LET seen == a.seen
        interaction == seen.interaction
        rawWorldPos == screenToWorld(screen, seen.pan)
        snappedWorldPos == getSnappedPos(rawWorldPos, seen.snappingEnabled,
                                         seen.walls, a.pixelsPerMeter)
        dx == screen.x - interaction.startScreen.x
        dy == screen.y - interaction.startScreen.y
        prev == a.interaction
        selectedType ==
            IF seen.selectedObject = Null THEN "none" ELSE seen.selectedObject.type
    IN  IF interaction = Null THEN a
        ELSE IF interaction.type = "panning"
        THEN [a EXCEPT !.pan = Pt(@.x + dx, @.y + dy),
                       !.interaction =
                           IF prev # Null THEN [prev EXCEPT !.startScreen = screen]
                           ELSE Null]
        ELSE IF interaction.type \in {"drawing_room", "drawing_line"}
        THEN [a EXCEPT !.interaction =
                           IF prev # Null
                           THEN [prev EXCEPT !.currentWorld = snappedWorldPos]
                           ELSE Null]
        ELSE IF interaction.type = "dragging" /\ selectedType = "ap"
        THEN [a EXCEPT !.accessPoints =
                  [i \in 1..Len(@) |->
                      IF @[i].id = interaction.activeId
                      THEN [@[i] EXCEPT !.position = snappedWorldPos] ELSE @[i]]]
        ELSE IF interaction.type = "dragging" /\ selectedType = "wall"
        THEN [a EXCEPT !.walls = DragWall(@, interaction, snappedWorldPos, rawWorldPos),
                       !.interaction =
                           IF prev # Null THEN [prev EXCEPT !.startWorld = rawWorldPos]
                           ELSE Null]
        ELSE IF /\ interaction.type = "rotating" /\ selectedType = "ap"
                /\ \E ap \in Range(seen.accessPoints) : ap.id = interaction.activeId
        THEN LET ap == CHOOSE p \in Range(seen.accessPoints) : p.id = interaction.activeId
                 angleDeg == atan2Deg(rawWorldPos.y - ap.position.y,
                                      rawWorldPos.x - ap.position.x)
             IN  [a EXCEPT !.accessPoints =
                     [i \in 1..Len(@) |->
                         IF @[i].id = interaction.activeId
                         THEN [@[i] EXCEPT !.rotation = JsRem(angleDeg + 360, 360)]
                         ELSE @[i]]]
        ELSE a

\* A mouse-move event: a continuous event, rendered later.
EditorMouseMove ==
    /\ app.events < EditorMaxEvents
    /\ \E screen \in CursorPoints :
          LET next == [handleMouseMove(app, screen) EXCEPT
                           !.cursor = IF app.grab # Null
                                      THEN screenToWorld(screen, app.seen.pan) ELSE @]
          IN  /\ InEditorRange(next)
              /\ app' = Handled(next, "mousemove")
    /\ UNCHANGED nonApp

\* handleMouseUp, after the branch of the scale tool: a room or a wall is
\* created from the interaction of the last render, and the interaction ends.
handleMouseUp(a) ==
    LET interaction == a.seen.interaction
        drawing(type) ==
            /\ interaction # Null
            /\ interaction.type = type /\ interaction.currentWorld # Null
        p1 == interaction.startWorld
        p3 == interaction.currentWorld
        w == Abs(p3.x - p1.x)
        h == Abs(p3.y - p1.y)
        withRoom ==
            IF drawing("drawing_room") /\ (w > 5 \/ h > 5)
            THEN [a EXCEPT !.walls =
                      @ \o BoxRoom(p1, p3, [k \in 1..4 |-> a.nextId + k - 1]),
                           !.nextId = @ + 4]
            ELSE a
        withLine ==
            IF drawing("drawing_line") /\ distanceSq(p1, p3) > 25
            THEN [withRoom EXCEPT !.walls = Append(@, NewWall(a.nextId, p1, p3)),
                                  !.nextId = @ + 1]
            ELSE withRoom
    IN  [withLine EXCEPT !.interaction = Null, !.grab = Null, !.cursor = Null]

\* A mouse-up event: a discrete event.
EditorMouseUp ==
    /\ app.events < EditorMaxEvents
    /\ app' = Rendered(Handled(handleMouseUp(app), "mouseup"))
    /\ UNCHANGED nonApp

\* The cursor leaves the canvas (onMouseLeave={handleMouseUp}): a continuous
\* event.
EditorMouseLeave ==
    /\ app.events < EditorMaxEvents
    /\ app' = Handled(handleMouseUp(app), "mouseleave")
    /\ UNCHANGED nonApp

\* A button of the sidebar or of the panel can be clicked: the cursor is off
\* the canvas, which it has left with a mouse-leave event, so that no
\* interaction is in progress.
ButtonClick == app.clicks < EditorMaxClicks /\ app.interaction = Null

\* One of the tool buttons of the sidebar is clicked.
SetEditorTool ==
    /\ ButtonClick
    /\ \E tool \in {"select", "wall_room", "wall_line", "ap"} :
          /\ tool # app.tool
          /\ app' = Rendered(Handled([app EXCEPT !.tool = tool], "click"))
    /\ UNCHANGED nonApp

\* The snapping button: setSnappingEnabled(!snappingEnabled).
ToggleSnapping ==
    /\ ButtonClick
    /\ app' = Rendered(Handled([app EXCEPT !.snappingEnabled = ~app.seen.snappingEnabled],
                               "click"))
    /\ UNCHANGED nonApp

\* The button Clear All: setWalls([]); setAccessPoints([]).
ClearAll ==
    /\ ButtonClick
    /\ app' = Rendered(Handled([app EXCEPT !.walls = <<>>, !.accessPoints = <<>>],
                               "click"))
    /\ UNCHANGED nonApp

\* PropertyPanel is shown when the selected object is found in its list.
PanelShown(seen) ==
    /\ seen.selectedObject # Null
    /\ \E object \in (IF seen.selectedObject.type = "wall" THEN Range(seen.walls)
                      ELSE Range(seen.accessPoints)) :
          object.id = seen.selectedObject.id

\* The delete button of the panel (onDelete).
DeleteSelected ==
    /\ ButtonClick
    /\ PanelShown(app.seen)
    /\ LET selectedObject == app.seen.selectedObject
           keep(objects) == SelectSeq(objects, LAMBDA o : o.id # selectedObject.id)
       IN  app' = Rendered(Handled(
                      [app EXCEPT !.walls = IF selectedObject.type = "wall"
                                            THEN keep(@) ELSE @,
                                  !.accessPoints = IF selectedObject.type = "ap"
                                                   THEN keep(@) ELSE @,
                                  !.selectedObject = Null],
                      "click"))
    /\ UNCHANGED nonApp

\* The close button of the panel (onClose).
ClosePanel ==
    /\ ButtonClick
    /\ PanelShown(app.seen)
    /\ app' = Rendered(Handled([app EXCEPT !.selectedObject = Null], "click"))
    /\ UNCHANGED nonApp

\* React renders the pending state changes of continuous events.
Render ==
    /\ app.seen # Closure(app)
    /\ app' = Rendered(app)
    /\ UNCHANGED nonApp

InitEditor ==
    /\ app \in {InitEditorApp(walls) : walls \in EditorDocuments}
    /\ geo = Idle /\ sig = Idle /\ met = Idle /\ ren = Idle

NextEditor ==
    \/ EditorMouseDown
    \/ EditorMouseMove
    \/ EditorMouseUp
    \/ EditorMouseLeave
    \/ SetEditorTool
    \/ ToggleSnapping
    \/ ClearAll
    \/ DeleteSelected
    \/ ClosePanel
    \/ Render

SpecEditor == InitEditor /\ [][NextEditor]_vars

\* -------------------------------------------------------- claims: geometry

\* Twice the signed area of the triangle p, q, r: positive when r lies to the
\* left of the directed line p -> q, negative to the right, 0 on the line.
Orient(p, q, r) == (q.x - p.x) * (r.y - p.y) - (q.y - p.y) * (r.x - p.x)

\* The two segments cross at one point strictly inside both: the ends of each
\* lie strictly on opposite sides of the line through the other.
ProperCrossing(a, b, c, d) ==
    /\ Orient(a, b, c) * Orient(a, b, d) < 0
    /\ Orient(c, d, a) * Orient(c, d, b) < 0

\* The direction vectors of the two segments are linearly dependent: the
\* segments are parallel or collinear, or one of them has zero length.
ParallelSegments(a, b, c, d) ==
    (b.x - a.x) * (d.y - c.y) = (d.x - c.x) * (b.y - a.y)

IntersectsDone == geo.op = "intersects" /\ geo.done

\* C8: intersects(a, b, c, d) is true exactly when the segments a-b and c-d
\* cross at a single point strictly interior to both; it is false for segments
\* that share an endpoint, for parallel or collinear segments (overlapping or
\* not) and whenever one segment has zero length.
C8_IntersectsProper ==
    IntersectsDone =>
        /\ geo.result <=> ProperCrossing(geo.a, geo.b, geo.c, geo.d)
        /\ {geo.a, geo.b} \cap {geo.c, geo.d} # {} => ~geo.result
        /\ ParallelSegments(geo.a, geo.b, geo.c, geo.d) => ~geo.result
        /\ (geo.a = geo.b \/ geo.c = geo.d) => ~geo.result

\* A crossing that intersects reports: the two diagonals of a square.
C8_Witness ==
    /\ IntersectsDone /\ geo.result
    /\ geo.a = [x |-> 0, y |-> 0] /\ geo.b = [x |-> 2, y |-> 2]
    /\ geo.c = [x |-> 0, y |-> 2] /\ geo.d = [x |-> 2, y |-> 0]

\* Number of equal parts into which a segment is cut to sample its points.
SegSamples == 4

\* The squared distance from p to the nearest point of the segment v-w, as a
\* fraction: the foot of the perpendicular when it falls on the segment
\* (squared distance = area^2 / length^2), else the nearer end.
NearestSq(p, v, w) ==
    LET l2 == distanceSq(v, w)
        num == (p.x - v.x) * (w.x - v.x) + (p.y - v.y) * (w.y - v.y)
        area == Orient(v, w, p)
    IN  IF l2 = 0 THEN [n |-> distanceSq(p, v), d |-> 1]
        ELSE IF 0 <= num /\ num <= l2 THEN [n |-> area * area, d |-> l2]
        ELSE [n |-> Min(distanceSq(p, v), distanceSq(p, w)), d |-> 1]

\* The squared distance from p to the point v + (k / SegSamples) (w - v),
\* multiplied by SegSamples^2.
SampleSq(p, v, w, k) ==
    LET qx == SegSamples * (p.x - v.x) - k * (w.x - v.x)
        qy == SegSamples * (p.y - v.y) - k * (w.y - v.y)
    IN  qx * qx + qy * qy

PtldDone == geo.op = "pointToLineDistance" /\ geo.done

\* C9: pointToLineDistance(p, v, w) is the distance from p to the nearest point
\* of the segment v-w (to the orthogonal projection when that falls on the
\* segment, otherwise to the nearer endpoint): no sampled point of the segment
\* is nearer; for v = w it is distance(p, v).
C9_PointToSegment ==
    PtldDone =>
        LET r == geo.result
            ref == NearestSq(geo.p, geo.v, geo.w)
        IN  /\ r.n * ref.d = ref.n * r.d
            /\ \A k \in 0..SegSamples :
                   r.n * SegSamples * SegSamples <= SampleSq(geo.p, geo.v, geo.w, k) * r.d
            /\ geo.v = geo.w => r.n = distanceSq(geo.p, geo.v) * r.d

\* A call whose projection falls beyond the end w, so that the clamp of t
\* decides the result: the nearest point is w, at squared distance 2.
C9_Witness ==
    /\ PtldDone
    /\ geo.v = [x |-> 0, y |-> 0] /\ geo.w = [x |-> 2, y |-> 0]
    /\ geo.p = [x |-> 3, y |-> 1]
    /\ geo.result.n = 2 * geo.result.d

\* --------------------------------------------------------- claims: metrics

ThroughputDone == met.op = "calculateThroughput" /\ met.done

\* C6: calculateThroughput returns 0 for every rssi below -90 dBm, whatever
\* the standard string and the channel width.
C6_ZeroBelowMinus90 ==
    (ThroughputDone /\ met.rssi < -90000) => met.result = 0

\* A call just below the cut-off, one mdB under -90 dBm, has returned; the
\* same arguments at -90 dBm and above are calls of the specification too.
C6_Witness ==
    /\ ThroughputDone /\ met.rssi = -90001
    /\ met.standard = "802.11be" /\ met.channelWidth = 160
    /\ met.result = 0

\* The buckets of the signal quantizer in the order of the code, strongest
\* first, in each encoding.
SignalColorBuckets ==
    << <<0, 255, 0, 60>>, <<120, 255, 0, 60>>, <<173, 255, 47, 60>>,
       <<255, 215, 0, 60>>, <<255, 165, 0, 60>>, <<255, 0, 0, 50>>,
       <<0, 0, 0, 0>> >>

SignalRGBBuckets ==
    << <<0, 100, 0>>, <<47, 100, 0>>, <<68, 100, 18>>, <<100, 84, 0>>,
       <<100, 65, 0>>, <<100, 0, 0>>, <<10, 10, 10>> >>

\* The buckets of the throughput quantizer, fastest first.
ThroughputColorBuckets ==
    << <<147, 51, 234, 60>>, <<37, 99, 235, 60>>, <<0, 255, 0, 60>>,
       <<255, 215, 0, 60>>, <<255, 165, 0, 60>>, <<255, 0, 0, 50>> >>

ThroughputRGBBuckets ==
    << <<58, 20, 92>>, <<15, 39, 92>>, <<0, 100, 0>>, <<100, 84, 0>>,
       <<100, 65, 0>>, <<100, 0, 0>> >>

\* The buckets (positions in the table) that an encoded value stands for: one
\* when the encoding tells the buckets apart.
BucketsOf(table, encoded) == {i \in 1..Len(table) : table[i] = encoded}

QuantizedBoth(op) == met.op = op /\ met.color # NoColor /\ met.rgb # NoColor

\* C10: for every signal value signalToColor and signalToRGB select the same
\* bucket, and for every throughput value throughputToColor and
\* throughputToRGB do, the exact bucket boundaries included.
C10_SameBucket ==
    /\ QuantizedBoth("quantizeSignal") =>
           /\ Cardinality(BucketsOf(SignalColorBuckets, met.color)) = 1
           /\ BucketsOf(SignalColorBuckets, met.color) = BucketsOf(SignalRGBBuckets, met.rgb)
    /\ QuantizedBoth("quantizeThroughput") =>
           /\ Cardinality(BucketsOf(ThroughputColorBuckets, met.color)) = 1
           /\ BucketsOf(ThroughputColorBuckets, met.color)
                  = BucketsOf(ThroughputRGBBuckets, met.rgb)

\* Both encodings of the boundary value -60 dBm have been computed: it falls
\* into the third bucket in both.
C10_Witness ==
    /\ QuantizedBoth("quantizeSignal") /\ met.value = -60000
    /\ met.color = SignalColorBuckets[3] /\ met.rgb = SignalRGBBuckets[3]

\* The position in a table of the bucket that an encoded value stands for;
\* position 1 is the strongest bucket.
BucketIndex(table, encoded) == CHOOSE i \in 1..Len(table) : table[i] = encoded

PairDone(op) == met.op = op /\ met.done

\* The larger value of a quantized pair is in no weaker bucket than the smaller.
PairMonotone(colorTable, rgbTable) ==
    /\ BucketIndex(colorTable, met.hiColor) <= BucketIndex(colorTable, met.loColor)
    /\ BucketIndex(rgbTable, met.hiRgb) <= BucketIndex(rgbTable, met.loRgb)

\* C11: each of the four quantizers maps every value to exactly one bucket of
\* its table, and is monotone: of two values, the larger is never mapped to a
\* weaker bucket than the smaller.
C11_OneBucketMonotone ==
    /\ QuantizedBoth("quantizeSignal") =>
           /\ Cardinality(BucketsOf(SignalColorBuckets, met.color)) = 1
           /\ Cardinality(BucketsOf(SignalRGBBuckets, met.rgb)) = 1
    /\ QuantizedBoth("quantizeThroughput") =>
           /\ Cardinality(BucketsOf(ThroughputColorBuckets, met.color)) = 1
           /\ Cardinality(BucketsOf(ThroughputRGBBuckets, met.rgb)) = 1
    /\ PairDone("quantizeSignalPair") =>
           PairMonotone(SignalColorBuckets, SignalRGBBuckets)
    /\ PairDone("quantizeThroughputPair") =>
           PairMonotone(ThroughputColorBuckets, ThroughputRGBBuckets)

\* 150 Mbps and 550 Mbps have been quantized as a pair: the larger value is
\* in the second bucket, the smaller in the third.
C11_Witness ==
    /\ PairDone("quantizeThroughputPair") /\ met.lo = 150 /\ met.hi = 550
    /\ met.hiRgb = ThroughputRGBBuckets[2] /\ met.loRgb = ThroughputRGBBuckets[3]
    /\ met.hiColor = ThroughputColorBuckets[2] /\ met.loColor = ThroughputColorBuckets[3]

\* C12: signalToColor returns alpha 0 exactly for the values not above
\* -85 dBm, every other value gets a non-zero alpha, and for the values not
\* above -85 dBm signalToRGB returns the dark triple [0.1, 0.1, 0.1].
C12_DeadZoneTransparent ==
    QuantizedBoth("quantizeSignal") =>
        /\ (met.color[4] = 0) <=> (met.value <= -85000)
        /\ (met.value <= -85000) => met.rgb = <<10, 10, 10>>

\* The boundary value -85 dBm itself has been quantized: transparent in the
\* alpha encoding, the dark triple in the other.
C12_Witness ==
    /\ QuantizedBoth("quantizeSignal") /\ met.value = -85000
    /\ met.color = <<0, 0, 0, 0>> /\ met.rgb = <<10, 10, 10>>

\* The four standards and the four channel widths of the editor.
KnownStandards == {"802.11n", "802.11ac", "802.11ax", "802.11be"}

KnownWidths == {20, 40, 80, 160}

\* The table of maximum rates, standard by standard, for the widths 20, 40,
\* 80 and 160 MHz in this order.
MaxRateTable ==
    [s \in KnownStandards |->
        IF s = "802.11n" THEN [w \in KnownWidths |-> IF w = 20 THEN 144 ELSE 300]
        ELSE IF s = "802.11ac"
        THEN (20 :> 173) @@ (40 :> 400) @@ (80 :> 867) @@ (160 :> 867)
        ELSE (20 :> 287) @@ (40 :> 574) @@ (80 :> 1200) @@ (160 :> 2400)]

\* The bands of the efficiency curve: <<lowest rssi in mdB, efficiency in
\* hundredths>>.
EfficiencyBands ==
    { <<-45000, 92>>, <<-55000, 80>>, <<-65000, 60>>, <<-70000, 40>>,
      <<-75000, 20>>, <<-80000, 10>> }

\* The efficiency of the highest band that rssi reaches, 0 when it reaches none.
EfficiencyAt(rssi) ==
    LET reached == {b \in EfficiencyBands : rssi >= b[1]}
    IN  IF reached = {} THEN 0
        ELSE (CHOOSE b \in reached : \A c \in reached : c[1] <= b[1])[2]

KnownThroughputDone ==
    /\ ThroughputDone
    /\ met.standard \in KnownStandards /\ met.channelWidth \in KnownWidths

\* C14: for rssi at or above -90 dBm calculateThroughput returns
\* floor(maxRate * efficiency), maxRate being the table entry of the standard
\* and the width and efficiency the step function of rssi (0.92 from -45,
\* 0.80 from -55, 0.60 from -65, 0.40 from -70, 0.20 from -75, 0.10 from -80,
\* 0 below); the result is a non-negative integer.
C14_FloorOfRateTimesEfficiency ==
    (KnownThroughputDone /\ met.rssi >= -90000) =>
        /\ met.result = (MaxRateTable[met.standard][met.channelWidth]
                            * EfficiencyAt(met.rssi)) \div 100
        /\ met.result \in Nat

\* 802.11ac at 80 MHz and -55 dBm has returned 693 = floor(867 * 0.80).
C14_Witness ==
    /\ KnownThroughputDone /\ met.standard = "802.11ac" /\ met.channelWidth = 80
    /\ met.rssi = -55000 /\ met.result = 693

\* C15: the maximum rate is defined (positive) for each of the four
\* standards and four widths, 802.11be at 160 MHz has the highest rate of the
\* table, and for a fixed standard a wider channel never has a lower rate.
C15_RateTableOrdered ==
    KnownThroughputDone =>
        LET rate == maxSpeed(met.standard, met.channelWidth)
        IN  /\ rate > 0
            /\ rate <= maxSpeed("802.11be", 160)
            /\ \A w \in KnownWidths :
                   w > met.channelWidth => maxSpeed(met.standard, w) >= rate
            /\ met.rssi >= -45000 => met.result = (rate * 92) \div 100

\* 802.11be at 160 MHz has been called at full efficiency: 2208 Mbps, the
\* floor of 2400 * 0.92.
C15_Witness ==
    /\ KnownThroughputDone /\ met.standard = "802.11be" /\ met.channelWidth = 160
    /\ met.rssi = -45000 /\ met.result = 2208

\* ----------------------------------------------------- claims: propagation

SignalDone == sig.op = "calculateSignal" /\ sig.done

\* The scale calculateSignal divides by.
EffectiveScale(pxScale) == IF pxScale > 0 THEN pxScale ELSE 20

\* The squared 3D distance between tx (at txAltitude cm) and rx (at rxHeight
\* cm), in units of (1 cm / scale)^2 so that nothing is divided or rooted:
\* pixels times 100 and heights times the scale.
ExactDistSq(tx, rx, pxScale, txAltitude, rxHeight) ==
    LET k == EffectiveScale(pxScale)
        ex == 100 * (rx.x - tx.x)
        ey == 100 * (rx.y - tx.y)
        ez == k * (txAltitude - rxHeight)
    IN  ex * ex + ey * ey + ez * ez

\* The 3D distance is below 0.1 m = 10 cm.
NearField(c, rx) ==
    ExactDistSq(c.tx, rx, c.pxScale, c.txAltitude, c.rxHeight)
        < 100 * EffectiveScale(c.pxScale) * EffectiveScale(c.pxScale)

\* C2: whenever the 3D distance between transmitter and receiver is below
\* 0.1 m, calculateSignal returns exactly power + gain - loss, whatever the
\* frequency, the walls and the antenna type, rotation and beamwidth.
C2_NearFieldIsEirp ==
    (SignalDone /\ NearField(sig, sig.rx)) =>
        sig.result = sig.budget.power + sig.budget.gain - sig.budget.loss

\* The receiver is 5 cm beside a directional transmitter pointing away from
\* it, at the same height, behind three walls, and gets the EIRP of 21 dBm.
C2_Witness ==
    /\ SignalDone /\ NearField(sig, sig.rx)
    /\ sig.rx = Pt(81, 80) /\ sig.pxScale = 20 /\ sig.txAltitude = sig.rxHeight
    /\ sig.ant.type = DIRECTIONAL /\ sig.ant.rotation = 180
    /\ Len(sig.walls) = 3 /\ sig.budget.loss = 2000
    /\ sig.result = 21000

CompareDone == sig.op = "compare" /\ sig.done

Dist1 == dist3D(sig.tx, sig.rx1, sig.pxScale, sig.txAltitude, sig.rxHeight)

Dist2 == dist3D(sig.tx, sig.rx2, sig.pxScale, sig.txAltitude, sig.rxHeight)

\* C4 as claimed: for fixed transmitter parameters and no walls, of two
\* receiver positions at 3D distances of at least 0.1 m, the one with the
\* larger 3D distance always gets the strictly lower signal.
C4_DecreasingAnyAntenna ==
    (CompareDone /\ 10 <= Dist1 /\ Dist1 < Dist2) => sig.result1 > sig.result2

\* C4, amended: for fixed transmitter parameters, an omnidirectional antenna
\* and no walls, of two receiver positions at 3D distances of at least 0.1 m,
\* the one with the larger 3D distance gets the strictly lower signal.
C4_DecreasingOmni ==
    (CompareDone /\ sig.ant.type = OMNI /\ 10 <= Dist1 /\ Dist1 < Dist2) =>
        sig.result1 > sig.result2

\* Two receivers of an omnidirectional transmitter mounted 1.5 m above them,
\* at 3D distances of 2.5 m and 3.2 m.
C4_Witness ==
    /\ CompareDone /\ sig.ant.type = OMNI /\ sig.txAltitude = 250
    /\ sig.rx1 = Pt(80, 120) /\ sig.rx2 = Pt(120, 120)
    /\ Dist1 = 250 /\ Dist2 = 320
    /\ sig.result1 > sig.result2

\* The bearing, in degrees, of the eight directions whose bearing is a whole
\* number whatever the distance (y grows downwards on the screen, 0 = East);
\* -1 for every other delta.
CompassBearing(dx, dy) ==
    IF dy = 0 /\ dx > 0 THEN 0
    ELSE IF dx > 0 /\ dy = dx THEN 45
    ELSE IF dx = 0 /\ dy > 0 THEN 90
    ELSE IF dx < 0 /\ dy = -dx THEN 135
    ELSE IF dy = 0 /\ dx < 0 THEN 180
    ELSE IF dx < 0 /\ dy = dx THEN 225
    ELSE IF dx = 0 /\ dy < 0 THEN 270
    ELSE IF dx > 0 /\ dy = -dx THEN 315
    ELSE -1

RxBearing == CompassBearing(sig.rx.x - sig.tx.x, sig.rx.y - sig.tx.y)

\* A directional call beyond the near field towards one of the eight compass
\* directions.
DirectionalDone ==
    /\ SignalDone /\ sig.ant.type = DIRECTIONAL
    /\ ~NearField(sig, sig.rx) /\ RxBearing # -1

\* What the same call returns for an omnidirectional antenna: the result
\* without any pattern loss.
OmniResult == SignalOf([sig EXCEPT !.ant.type = OMNI], sig.rx, sig.walls)

\* C5: for a directional antenna, a receiver whose bearing equals the
\* rotation gets zero pattern loss for every beamwidth below 360, and a
\* receiver at an angular difference of 180 degrees gets exactly 25 dB of
\* pattern loss for every beamwidth whose half is below 180.
C5_BoresightAndBack ==
    DirectionalDone =>
        /\ ((sig.ant.rotation - RxBearing) % 360 = 0 /\ sig.ant.beamwidth < 360)
               => sig.result = OmniResult
        /\ ((sig.ant.rotation - RxBearing) % 360 = 180 /\ sig.ant.beamwidth < 360)
               => sig.result = OmniResult - 25000

\* A receiver due north of a transmitter rotated by -90 degrees (boresight),
\* and a receiver due south of it (180 degrees off) with a beam of 180.
C5_Witness ==
    /\ DirectionalDone /\ sig.ant.rotation = -90 /\ sig.ant.beamwidth = 180
    /\ sig.rx = Pt(80, 160) /\ RxBearing = 90
    /\ sig.result = OmniResult - 25000

WallEffectDone == sig.op = "wallEffect" /\ sig.done

\* The wall crosses the segment from the transmitter to the receiver of the
\* call: the segments cross at one point strictly inside both.
Crosses(wall) == ProperCrossing(sig.tx, sig.rx, wall.start, wall.end)

\* 150 times the loss that the walls of the list that cross the path and have
\* a thickness above 0 add up to: attenuation (mdB) times thickness (mm), the
\* claimed attenuation * (thickness / 0.15) without the division.
RECURSIVE CrossedLoss150(_)
CrossedLoss150(walls) ==
    IF walls = <<>> THEN 0
    ELSE (IF Crosses(Head(walls)) THEN Head(walls).attenuation * Head(walls).thickness
          ELSE 0)
         + CrossedLoss150(Tail(walls))

\* C3: beyond the near field, adding one wall that crosses the segment from
\* the transmitter to the receiver lowers the result by exactly
\* attenuation * (thickness / 0.15); the contributions of several crossed
\* walls add up, in any order of the list; doubling the thickness of a wall
\* doubles its contribution; for every thickness > 0.
C3_WallLoss ==
    (WallEffectDone /\ ~NearField(sig, sig.rx) /\ sig.extra.thickness > 0) =>
        /\ Crosses(sig.extra) =>
               150 * (sig.without - sig.appended)
                   = sig.extra.attenuation * sig.extra.thickness
        /\ 150 * (sig.clear - sig.appended)
               = CrossedLoss150(Append(sig.walls, sig.extra))
        /\ sig.prepended = sig.appended
        /\ sig.without - sig.doubled = 2 * (sig.without - sig.appended)

\* A receiver south-east of the transmitter, behind the brick wall and the
\* concrete wall of the list, and behind a third, 0.30 m thick concrete wall
\* that is added: 24 dB less than without it, 48 dB less with it doubled.
C3_Witness ==
    /\ WallEffectDone /\ ~NearField(sig, sig.rx)
    /\ sig.rx = Pt(120, 120) /\ sig.walls = <<WallSouth, WallEast>>
    /\ sig.extra.start = Pt(20, 100) /\ sig.extra.thickness = 300
    /\ sig.extra.attenuation = 12000 /\ Crosses(sig.extra)
    /\ Crosses(WallEast)
    /\ sig.without - sig.appended = 24000
    /\ sig.without - sig.doubled = 48000

RoundTripDone == sig.op = "roundTrip" /\ sig.done

\* The tolerance of the round trip, in mdB.
Tolerance == 10

\* The threshold lies between the signal at the returned distance, rounded
\* down to whole cm, and the signal one cm beyond, within the tolerance.
RoundTripHolds ==
    /\ sig.beyond - Tolerance <= sig.minSignal
    /\ sig.minSignal <= sig.atRange + Tolerance

\* C7 as claimed: for every transmit power, gain, cable loss, frequency and
\* threshold, calculateSignal (no walls, omnidirectional, equal heights) at the
\* distance returned by calculateFreeSpaceRange gives the threshold again.
C7_RoundTripAlways == RoundTripDone => RoundTripHolds

\* C7, amended: the round trip gives the threshold again whenever the
\* distance returned by calculateFreeSpaceRange is at least 0.1 m.
C7_RoundTripBeyondNearField == (RoundTripDone /\ sig.range >= 10) => RoundTripHolds

\* The threshold the callers pass, -75 dBm, for the default access point
\* (20 dBm, 3 dBi) at 2.4 GHz: a range of 789 m.
C7_Witness ==
    /\ RoundTripDone /\ sig.minSignal = -75000 /\ sig.freq = 2400
    /\ sig.budget = [power |-> 20000, gain |-> 3000, loss |-> 0]
    /\ sig.range >= 78000 /\ sig.range <= 79000
    /\ RoundTripHolds

ScaleGuardDone == sig.op = "scaleGuard" /\ sig.done

\* C13: whenever the pxScale argument of calculateSignal is not both finite
\* and greater than 0 (zero, negative, NaN or infinite), the result is the
\* result of the call with pxScale = 20 and all other arguments equal.
C13_InvalidScaleIsDefault ==
    ScaleGuardDone => sig.result = sig.atDefault

\* ------------------------------------------------------- claims: renderers

AllRendered ==
    /\ ren.op = "render"
    /\ ren.heat # NoResult /\ ren.floor # NoResult /\ ren.cursor # NoResult

\* C1: for the same walls, access points, scale and sample point, the
\* best-signal value (in throughput mode the best-throughput value) computed
\* by the 2D overlay, by the 3D floor mesh and by the cursor readout is the
\* same number, for every access-point configuration, altitudes other than
\* 2.5 m and parameters equal to 0 included.
C1_RenderersAgree ==
    AllRendered => (ren.heat[1] = ren.floor[1] /\ ren.floor[1] = ren.cursor[1])

\* The largest number of a non-empty finite set of numbers.
Maximum(S) == CHOOSE m \in S : \A n \in S : n <= m

ApsOf(aps) == {aps[i] : i \in 1..Len(aps)}

\* The signal of one access point at the sample point as HeatmapCanvas asks
\* for it, and as handleMouseMove and handleExport do.
HeatmapSignalOf(ap) ==
    calculateSignal(ap.position, ren.pt, ap.txPower, ap.antennaGain, ap.cableLoss,
                    ap.frequency, ren.walls, ren.pixelsPerMeter, ap.antennaType,
                    ap.rotation, ap.beamwidth, 250, 100)

CursorSignalOf(ap) ==
    calculateSignal(ap.position, ren.pt, ap.txPower, ap.antennaGain, ap.cableLoss,
                    ap.frequency, ren.walls, ren.pixelsPerMeter, ap.antennaType,
                    ap.rotation, ap.beamwidth, ap.altitude, 100)

Rendered2D ==
    /\ ren.op = "render"
    /\ ren.heat # NoResult /\ ren.cursor # NoResult /\ ren.export # NoResult

\* C16: in signal mode, with at least one access point, the value handed to
\* the quantizer by HeatmapCanvas and by handleExport, and the value of the
\* cursor readout, is the maximum of calculateSignal over the access points
\* at the point, however weak that maximum is.
C16_BestSignalIsMaximum ==
    (Rendered2D /\ ren.vizMode = "signal") =>
        /\ ren.heat[1] = Maximum({HeatmapSignalOf(ap) : ap \in ApsOf(ren.accessPoints)})
        /\ ren.cursor[1] = Maximum({CursorSignalOf(ap) : ap \in ApsOf(ren.accessPoints)})
        /\ ren.export[1] = Maximum({CursorSignalOf(ap) : ap \in ApsOf(ren.accessPoints)})

\* The access points whose signal at the sample point is the strongest, the
\* signal being the one that the Viewer3D call computes.
StrongestAps(signalOf(_)) ==
    {ap \in ApsOf(ren.accessPoints) :
        \A other \in ApsOf(ren.accessPoints) : signalOf(other) <= signalOf(ap)}

FloorSignalOf(ap) == Viewer3DSignal(ap, ren.pt, ren.walls, ren.pixelsPerMeter)

\* C17: in throughput mode the value quantized by HeatmapCanvas and by
\* Viewer3D is the throughput estimate of the access point with the
\* strongest signal at the point.
C17_ThroughputOfStrongest ==
    (ren.op = "render" /\ ren.vizMode = "throughput"
        /\ ren.heat # NoResult /\ ren.floor # NoResult) =>
        /\ \E ap \in StrongestAps(HeatmapSignalOf) :
               ren.heat[1] = calculateThroughput(HeatmapSignalOf(ap), ap.wifiStandard,
                                                 ap.channelWidth)
        /\ \E ap \in StrongestAps(FloorSignalOf) :
               ren.floor[1] = calculateThroughput(FloorSignalOf(ap), ap.wifiStandard,
                                                  OrElse(ap.channelWidth, 40))

SphereDone == ren.op = "sphere" /\ ren.sphere # NoResult

\* C18: calculateFreeSpaceRange does not clamp its result (a transmit power
\* of +Infinity gives +Infinity, one of -Infinity gives 0); Viewer3D replaces
\* a range that is not finite or not positive by 1 m; the radius of the
\* signal sphere is always a finite number greater than 0, and it is the
\* estimated range times the scale whenever the estimate is finite and
\* positive.
C18_SphereRadiusFinitePositive ==
    SphereDone =>
        LET s == ren.sphere
        IN  /\ ren.ap.txPower = PosInfinity => s.rangeMeters = PosInfinity
            /\ ren.ap.txPower = NegInfinity => s.rangeMeters = 0
            /\ ~(IsFinite(s.rangeMeters) /\ s.rangeMeters > 0) => s.safeRangeMeters = 100
            /\ IsFinite(s.rangePx) /\ s.rangePx > 0
            /\ (IsFinite(s.rangeMeters) /\ s.rangeMeters > 0 /\ IsFinite(s.scale)) =>
                   s.rangePx = s.rangeMeters * s.scale

\* ---------------------------------------------------- claims: core calls

\* The arguments of a call: the points, the wall list with its walls, the
\* numbers and the strings handed over.
GeomArguments(c) == <<c.a, c.b, c.c, c.d>>

SignalArguments(c) ==
    IF c.op = "calculateSignal"
    THEN <<c.tx, c.rx, c.budget, c.freq, c.walls, c.pxScale, c.ant, c.txAltitude,
           c.rxHeight>>
    ELSE <<c.budget, c.freq, c.minSignal>>

MetricArguments(c) ==
    IF c.op = "calculateThroughput" THEN <<c.rssi, c.standard, c.channelWidth>>
    ELSE <<c.value>>

\* What the calls made so far have returned.
GeomReturned(c) == IF c.done THEN <<c.result>> ELSE <<>>

SignalReturned(c) ==
    IF c.op = "calculateSignal" THEN (IF c.done THEN <<c.result>> ELSE <<>>)
    ELSE (IF c.range # NoRange THEN <<c.range>> ELSE <<>>)

MetricReturned(c) ==
    IF c.op = "calculateThroughput" THEN (IF c.done THEN <<c.result>> ELSE <<>>)
    ELSE (IF c.color # NoColor /\ c.rgb # NoColor THEN <<c.color, c.rgb>> ELSE <<>>)

C19_ScaleFinitePositive ==
    IsFinite(app.pixelsPerMeter) /\ app.pixelsPerMeter > 0

\* ------------------------------------------------------------------ C30

ThroughputPairDone == met.op = "calculateThroughputPair" /\ met.done

\* C30: for a fixed standard and channel width, calculateThroughput is
\* non-decreasing in rssi: of two signals, the stronger one never gets the
\* lower throughput estimate.
C30_ThroughputMonotone ==
    ThroughputPairDone => met.loResult <= met.hiResult

\* C30 witness: a pair of signals either side of -70 dBm, of which the
\* stronger gets the strictly higher estimate (0.40 against 0.20 of 1200).
C30_Witness ==
    /\ ThroughputPairDone
    /\ met.lo = -70001 /\ met.hi = -70000
    /\ met.standard = "802.11ax" /\ met.channelWidth = 80
    /\ met.loResult = 240 /\ met.hiResult = 480

\* ------------------------------------------------------------------ C21

EirpCapDone == sig.op = "eirpCap" /\ sig.done

Eirp(c) == c.budget.power + c.budget.gain - c.budget.loss

NonNegativeAttenuations(walls) ==
    \A i \in 1..Len(walls) : walls[i].attenuation >= 0

\* C21: for every receiver position and height, every wall list with
\* non-negative attenuations and both frequencies of the editor, the result
\* of calculateSignal never exceeds the EIRP power + gain - loss.
C21_NeverAboveEirp ==
    (EirpCapDone /\ NonNegativeAttenuations(sig.walls))
        => sig.result <= Eirp(sig)

\* ------------------------------------------------------------------ C22

PatternDone == sig.op = "pattern" /\ sig.done

\* The bearing from the transmitter to the receiver, in 0..359 degrees.
Bearing(c) ==
    LET a == atan2Deg(c.rx.y - c.tx.y, c.rx.x - c.tx.x)
    IN  IF a < 0 THEN a + 360 ELSE a

\* The shorter arc between two directions, whatever turns they are given in.
ShorterArc(a, b) ==
    LET arcs == {Abs(a - b + 360 * k) : k \in -3..3}
    IN  CHOOSE d \in arcs : \A e \in arcs : d <= e

\* The loss that the call has subtracted for the pattern.
PatternLossOf(c) == c.omni - c.result

\* C22: for a directional antenna the pattern loss is 0 whenever the shorter
\* arc between the bearing to the receiver and the rotation is at most half
\* the beamwidth, and (diff - halfBeam) / (180 - halfBeam) * 25 dB otherwise;
\* the difference lies in 0..180, the loss in 0..25 dB, and a rotation a full
\* turn further or back gives the same result.
C22_PatternLoss ==
    PatternDone =>
        LET arc == ShorterArc(Bearing(sig), sig.ant.rotation)
            beamwidth == sig.ant.beamwidth
        IN  /\ sig.diff = arc
            /\ sig.diff >= 0 /\ sig.diff <= 180
            /\ 2 * arc <= beamwidth => PatternLossOf(sig) = 0
            /\ 2 * arc > beamwidth =>
                   PatternLossOf(sig) =
                       ((2 * arc - beamwidth) * 25000) \div (360 - beamwidth)
            /\ PatternLossOf(sig) >= 0 /\ PatternLossOf(sig) <= 25000
            /\ sig.further = sig.result /\ sig.back = sig.result

\* C22 witness: a receiver at a bearing of 315 degrees and a rotation of -90
\* degrees (270), beamwidth 60: a difference of 45 degrees, 15 beyond the
\* edge of the beam, a loss of 15 / 150 * 25 = 2.5 dB.
C22_Witness ==
    /\ PatternDone
    /\ sig.rx = Pt(120, 40) /\ sig.ant.rotation = -90 /\ sig.ant.beamwidth = 60
    /\ sig.diff = 45 /\ PatternLossOf(sig) = 2500

\* ------------------------------------------------------------------ C23

WallFieldsDone == sig.op = "wallFields" /\ sig.done

\* C23: the result of calculateSignal does not depend on the height, the
\* material or the id of any wall: two wall lists that differ only in these
\* fields give the same signal.
C23_WallFieldsIgnored ==
    WallFieldsDone => sig.relabelled = sig.result

\* C23 witness: the concrete wall east of the transmitter given a height of
\* 0.5 m, below the receiver (1.0 m) and the transmitter (2.5 m), and a
\* receiver beyond it: its 12 dB are subtracted in full.
C23_Witness ==
    /\ WallFieldsDone
    /\ sig.walls = <<WallEast>> /\ sig.height = 50 /\ sig.txAltitude = 250
    /\ sig.rx = Pt(160, 80) /\ sig.ant.type = OMNI
    /\ sig.relabelled = sig.clear - 12000

\* ------------------------------------------------------------------ C24

RoomDone == sig.op = "room" /\ sig.done

\* C24: for a transmitter strictly inside a room of four walls that share
\* their corners and a receiver strictly outside it, calculateSignal
\* subtracts the attenuation of at least one of the four walls (12 dB each).
C24_NoWayOutUnattenuated ==
    RoomDone => sig.result <= sig.clear - 12000

\* ------------------------------------------------------------------ C27

\* C27: whenever an access point is moved with the 3D transform control, the
\* altitude reported through onUpdateAP equals the z coordinate of its mesh
\* divided by the scale with which the meshes are placed at that moment, also
\* when pixelsPerMeter has been changed after the viewer was mounted.
C27_AltitudeAtCurrentScale ==
    (ren.op = "viewer3D" /\ ren.change # Null)
        => ren.change.altitude * ren.change.placedScale = ren.change.meshZ

\* ------------------------------------------------------------------ C25

\* The object that selectedObject names is in the list of its type.
SelectionExists(a) ==
    a.selectedObject # Null =>
        \E object \in (IF a.selectedObject.type = "wall" THEN Range(a.walls)
                       ELSE Range(a.accessPoints)) :
            object.id = a.selectedObject.id

\* C25: whenever selectedObject is not null, a wall or an access point of
\* its type with its id exists in the document.
C25_SelectionExists == SelectionExists(app)

\* ------------------------------------------------------------------ C26

\* The walls that a step appends to the document.
AddedWalls == SubSeq(app'.walls, Len(app.walls) + 1, Len(app'.walls))

\* The step is the end of a drag of the room tool or of the line tool, as
\* the handler of the event sees the drag.
EndsDrawing(type) ==
    /\ EditorMouseUp \/ EditorMouseLeave
    /\ app.seen.interaction # Null
    /\ app.seen.interaction.type = type

DragWidth == Abs(app.seen.interaction.currentWorld.x - app.seen.interaction.startWorld.x)

DragHeight == Abs(app.seen.interaction.currentWorld.y - app.seen.interaction.startWorld.y)

\* C26: every wall that the room tool or the line tool adds is longer than
\* 5 pixels; a drag of at most 5 pixels adds no wall, and a room drag of
\* more than 5 pixels adds exactly four walls.
C26_AddedWallsLongerThanFive ==
    [][ /\ (EditorMouseUp \/ EditorMouseLeave) =>
              \A wall \in Range(AddedWalls) : distanceSq(wall.start, wall.end) > 25
        /\ (EndsDrawing("drawing_room") /\ DragWidth <= 5 /\ DragHeight <= 5) =>
              AddedWalls = <<>>
        /\ (EndsDrawing("drawing_line") /\ DragWidth * DragWidth
                                            + DragHeight * DragHeight <= 25) =>
              AddedWalls = <<>>
        /\ (EndsDrawing("drawing_room") /\ (DragWidth > 5 \/ DragHeight > 5)) =>
              Len(AddedWalls) = 4 ]_vars

\* ------------------------------------------------------------------ C28

\* The point moved by the way of the cursor since the button went down.
MovedWithCursor(point) ==
    Pt(point.x + app.cursor.x - app.grab.world.x, point.y + app.cursor.y - app.grab.world.y)

\* A wall is being dragged by its body and a mouse-move has been handled.
BodyDragMoved == app.grab # Null /\ app.cursor # Null

\* C28: during a drag of a wall by its body, after every mouse-move both
\* ends of the wall are where they were at the mouse-down, moved by the way
\* of the cursor since then; the wall keeps its length and direction.
C28_BodyDragFollowsCursor ==
    BodyDragMoved =>
        \A wall \in Range(app.walls) :
            wall.id = app.grab.id =>
                /\ wall.start = MovedWithCursor(app.grab.start)
                /\ wall.end = MovedWithCursor(app.grab.end)
                /\ wall.end.x - wall.start.x = app.grab.end.x - app.grab.start.x
                /\ wall.end.y - wall.start.y = app.grab.end.y - app.grab.start.y

\* ------------------------------------------------------------------ C29

\* C29: every mouse-up and every mouse-leave ends the interaction, and a
\* mouse-move while no interaction is in progress leaves the walls, the
\* access points, the pan offset and the scale as they are.
C29_NoInteractionNoChange ==
    [][ /\ (EditorMouseUp \/ EditorMouseLeave) => app'.interaction = Null
        /\ (EditorMouseMove /\ app.interaction = Null) =>
              /\ app'.walls = app.walls
              /\ app'.accessPoints = app.accessPoints
              /\ app'.pan = app.pan
              /\ app'.pixelsPerMeter = app.pixelsPerMeter ]_vars


====
